---- MODULE Spec2Model ----
(***************************************************************************)
(* fs-ingest-daemon: the coordination of the watcher callback and the      *)
(* initial scan (daemon.processFile), the SQLite state store               *)
(* (store.RegisterFile, MarkOrphans, MarkUploaded, RemoveFile and the      *)
(* queries), the ingester (producer, job channel, in-flight set, workers   *)
(* running Uploader.Process), the pruner (Pruner.Prune) and the orphan     *)
(* checker (daemon.orphanChecker).                                         *)
(*                                                                         *)
(* A path is a tuple <<stem, ext1, ..., extn>>: <<"a","png","json">> is    *)
(* a.png.json.  Times are whole seconds.                                   *)
(***************************************************************************)
EXTENDS Integers, Sequences, FiniteSets, TLC

\* ------------------------------------------------------------------ bounds

\* Number of times the wall clock advances in a run of Spec.
MaxTick == 1
\* Number of file writes and deletions made by the user of the watch directory.
MaxUserOps == 1
\* Largest file size written, in bytes.
MaxSize == 1
\* The disk budget in bytes (config max_data_size_gb, converted to bytes).
MaxBytes == 2
\* Number of ingest workers (config ingest_worker_count).
IngestWorkerCount == 1
\* Capacity of the job channel and LIMIT of GetPendingFiles (config ingest_batch_size).
IngestBatchSize == 1
\* LIMIT of GetPruneCandidates (config prune_batch_size).
PruneBatchSize == 1
\* config orphan_check_interval, in seconds.
OrphanCheckInterval == 2
\* config prune_high_watermark_percent and prune_low_watermark_percent.
PruneHighWatermarkPercent == 50
PruneLowWatermarkPercent == 25
\* config debounce_duration, in seconds.
Debounce == 2
\* The largest number of directories between the watch root and a file.
MaxDirs == 2
\* The largest orphan_check_interval of the orphan checker run alone, in minutes.
MaxIntervalMinutes == 12
\* The pruner run alone: the number of files of the tables it starts from, the
\* largest file size, the largest prune_batch_size, and the disk budget in bytes.
EvictFiles == 4
EvictMaxSize == 2
MaxBatch == 2
EvictBudget == 8

\* ------------------------------------------------------- program constants

\* time.Minute, in seconds.
Minute == 60
DefaultHighMark == 90
DefaultLowMark == 75
StatusCreated == 201
StatusOK == 200
\* TestPruner_Eviction_Hysteresis: a budget of 100 bytes, watermarks of 80% and 40%,
\* six files of 20 bytes.
ExampleBudget == 100
ExampleHigh == 80
ExampleLow == 40
ExampleFiles == 6
ExampleSize == 20

\* ------------------------------------------------------------------- paths

JsonExt == "json"

A == <<"a", "png">>
AJ == <<"a", "png", "json">>
B == <<"b", "png">>
\* A directory under the watch root, and a file in it.
SubDir == <<"sub">>
SC == <<"sub/c", "png">>

\* path + ".json"
AddJson(path) == Append(path, JsonExt)

\* filepath.Ext(path): the last extension, "" when the name has none.
Ext(path) == IF Len(path) > 1 THEN path[Len(path)] ELSE ""

\* strings.TrimSuffix(path, ".json")
TrimJson(path) == IF Ext(path) = JsonExt THEN SubSeq(path, 1, Len(path) - 1) ELSE path

\* sql.NullString{Valid: false} and a NULL uploaded_at.
NullPath == <<>>
NullTime == -1

StatusPending == "PENDING"
StatusUploaded == "UPLOADED"
StatusAwaitingPartner == "AWAITING_PARTNER"
StatusOrphan == "ORPHAN"

\* ------------------------------------------------------------------- store
\* The table files as a function from the paths that have a row to the row.

\* INSERT ... ON CONFLICT(path) DO UPDATE SET size, mod_time, status, partner_path:
\* a new row has uploaded_at NULL, an existing row keeps its uploaded_at.
Upsert(fs, path, size, modTime, st, pp) ==
    [q \in DOMAIN fs \cup {path} |->
        IF q = path
        THEN [size |-> size, mod_time |-> modTime, status |-> st, partner_path |-> pp,
              uploaded_at |-> IF path \in DOMAIN fs THEN fs[path].uploaded_at ELSE NullTime]
        ELSE fs[q]]

\* The partner path RegisterFile computes.
PartnerOf(path, isMeta) == IF ~isMeta THEN AddJson(path) ELSE TrimJson(path)

\* A fault of UpdatePartner: the partner's link is set and its status is left as it was.
UpdatePartnerKeepsStatus(fs, partnerPath, path) ==
    [q \in DOMAIN fs |->
        IF q = partnerPath THEN [fs[q] EXCEPT !.partner_path = path] ELSE fs[q]]

\* UPDATE files SET status = PENDING, partner_path = path WHERE id = partnerID
UpdatePartner(fs, partnerPath, path) ==
    [q \in DOMAIN fs |->
        IF q = partnerPath
        THEN [fs[q] EXCEPT !.status = StatusPending, !.partner_path = path]
        ELSE fs[q]]

\* A fault of InitialStatus: the sidecar strategy is not consulted.
InitialStatusAlwaysAwaiting(isMeta, expectSidecar) == StatusAwaitingPartner

\* The status RegisterFile stores when the partner has no row.
InitialStatus(isMeta, expectSidecar) ==
    IF ~isMeta /\ ~expectSidecar THEN StatusPending ELSE StatusAwaitingPartner

RegisterFile(fs, path, size, modTime, isMeta, expectSidecar) ==
    LET partnerPath == PartnerOf(path, isMeta)
        foundPartner == partnerPath \in DOMAIN fs
        pp == IF partnerPath # <<>> THEN partnerPath ELSE NullPath
    IN  IF ~foundPartner
        THEN Upsert(fs, path, size, modTime, InitialStatus(isMeta, expectSidecar), pp)
        ELSE UpdatePartner(Upsert(fs, path, size, modTime, StatusPending, partnerPath),
                           partnerPath, path)

\* A fault of MarkOrphans: the deadline itself counts as past.
MarkOrphansInclusive(fs, nowT, timeout) ==
    [q \in DOMAIN fs |->
        IF fs[q].status = StatusAwaitingPartner /\ fs[q].mod_time <= nowT - timeout
        THEN [fs[q] EXCEPT !.status = StatusOrphan]
        ELSE fs[q]]

\* A fault of MarkOrphans: the WHERE clause does not test the status.
MarkOrphansAnyStatus(fs, nowT, timeout) ==
    [q \in DOMAIN fs |->
        IF fs[q].mod_time < nowT - timeout
        THEN [fs[q] EXCEPT !.status = StatusOrphan]
        ELSE fs[q]]

\* UPDATE files SET status = ORPHAN WHERE status = AWAITING_PARTNER AND mod_time < deadline
MarkOrphans(fs, nowT, timeout) ==
    LET deadline == nowT - timeout
    IN  [q \in DOMAIN fs |->
            IF fs[q].status = StatusAwaitingPartner /\ fs[q].mod_time < deadline
            THEN [fs[q] EXCEPT !.status = StatusOrphan]
            ELSE fs[q]]

\* A MarkUploaded that leaves an UPLOADED row as it is.
MarkUploadedOnce(fs, path, nowT) ==
    [q \in DOMAIN fs |->
        IF q = path /\ fs[q].status # StatusUploaded
        THEN [fs[q] EXCEPT !.status = StatusUploaded, !.uploaded_at = nowT]
        ELSE fs[q]]

\* UPDATE files SET status = UPLOADED, uploaded_at = now WHERE path = ?
MarkUploaded(fs, path, nowT) ==
    [q \in DOMAIN fs |->
        IF q = path
        THEN [fs[q] EXCEPT !.status = StatusUploaded, !.uploaded_at = nowT]
        ELSE fs[q]]

\* DELETE FROM files WHERE path = ?
RemoveFile(fs, path) == [q \in DOMAIN fs \ {path} |-> fs[q]]

RECURSIVE SumSizes(_, _)
SumSizes(fs, S) ==
    IF S = {} THEN 0
    ELSE LET q == CHOOSE x \in S : TRUE IN fs[q].size + SumSizes(fs, S \ {q})

\* SELECT COALESCE(SUM(size), 0) FROM files
GetTotalSize(fs) == SumSizes(fs, DOMAIN fs)

\* A row as the FileRecord a query returns, with the fields its readers read
\* (Process reads Path, Size and PartnerPath; Prune reads Path and Size).
FileRecord(fs, q) ==
    [path |-> q, size |-> fs[q].size, mod_time |-> fs[q].mod_time,
     partner_path |-> fs[q].partner_path]

\* The results a query "WHERE status IN statuses ORDER BY mod_time ASC LIMIT limit"
\* can return: rows with equal mod_time come in an order SQL leaves open.
RECURSIVE OrderedRows(_, _, _)
OrderedRows(fs, S, limit) ==
    IF S = {} \/ limit = 0 THEN {<<>>}
    ELSE LET firsts == {q \in S : \A r \in S : fs[q].mod_time <= fs[r].mod_time}
         IN  UNION {{<<FileRecord(fs, q)>> \o rest : rest \in OrderedRows(fs, S \ {q}, limit - 1)}
                    : q \in firsts}

\* A fault of GetPruneCandidates: the WHERE clause does not test the status.
GetPruneCandidatesAnyStatus(fs, limit) == OrderedRows(fs, DOMAIN fs, limit)

GetPruneCandidates(fs, limit) ==
    OrderedRows(fs, {q \in DOMAIN fs : fs[q].status = StatusUploaded}, limit)

GetPendingFiles(fs, limit) ==
    OrderedRows(fs, {q \in DOMAIN fs : fs[q].status \in {StatusPending, StatusOrphan}}, limit)


\* ------------------------------------------------------------------- state

VARIABLES
    now,            \* number of times the wall clock has advanced: the time is Time(now)
    expectSidecar,  \* config: sidecar_strategy is not "none"
    env,            \* what surrounds the daemon in this run: the user's [paths, sizes,
                    \* maxOps], the instants [clock], the start-up contents [disks],
                    \* whether I/O, the database and the remote can fail [faults], and
                    \* whether the last store operation is recorded [history], the
                    \* pruner's configuration [cfg]
    disk,           \* the watch directory: path -> [size, mtime] of the files present
    files,          \* the store's table: path -> row
    timers,         \* Watcher.timers: the paths with an armed debounce timer
    scanTodo,       \* the paths the initial walk has listed and not yet visited
    userOps,        \* number of writes and deletions the user has made
    prod,           \* the producer goroutine: [pc, batch]
    jobs,           \* Ingester.jobs: the buffered channel of FileRecords
    pending,        \* Ingester.pending: the in-flight set
    wk,             \* the workers: w -> [pc, f, trace, sent]
    pr,             \* the pruner goroutine: [pc, currentSize, candidates, idx, deletedCount],
                    \* and as history the candidates whose files this cycle has
                    \* unlinked [evicted]
    confirmed,      \* history: the uploads the remote confirmed, <<path, size, mtime>> sent
    last,           \* history: the last store write, [op, path, at, pre, partner, rows]
    deb,            \* the debounce timers of one path: Watcher.timers[path] and the
                    \* time.Timer objects made for it, with the history of its events
    dirs,           \* the directories under the watch root, the fsnotify watch set and
                    \* the fsnotify Events channel
    shut,           \* the shutdown: Ingester.stop, the closed channel, the goroutines
                    \* that have exited, Pruner.stop, the closed store, and the store
                    \* methods called after the store was closed
    extract         \* a call of util.ExtractMetadata: its arguments and what it returned

\* The state that only the specifications of the watcher's timers, of the watch
\* set, of the shutdown and of the metadata extraction change.
aux == <<deb, dirs, shut, extract>>

vars == <<now, expectSidecar, env, disk, files, timers, scanTodo, userOps,
          prod, jobs, pending, wk, pr, confirmed, last, aux>>

Workers == 1..IngestWorkerCount

\* time.Now(), in seconds.
Time(i) == env.clock[i + 1]

\* The outcomes of a system call or a database statement: TRUE is success.
Outcomes == IF env.faults THEN BOOLEAN ELSE {TRUE}

\* The zero FileRecord of an idle worker.
NoJob == [path |-> NullPath, size |-> 0, mod_time |-> 0, partner_path |-> NullPath]

\* The content a run has sent with its PUT: none yet.
NoContent == [size |-> 0, mtime |-> NullTime]

IdleWorker == [pc |-> "idle", f |-> NoJob, trace |-> <<>>, sent |-> NoContent,
               ctx |-> NoContent]
IdleProducer == [pc |-> "idle", batch |-> <<>>]
IdlePruner == [pc |-> "idle", currentSize |-> 0, candidates |-> <<>>, idx |-> 0,
               deletedCount |-> 0, evicted |-> <<>>]

\* The order in which filepath.Walk visits the files of the watch root.
ScanOrder == <<A, AJ, B>>

RECURSIVE Listing(_, _)
Listing(order, present) ==
    IF order = <<>> THEN <<>>
    ELSE IF Head(order) \in present
         THEN <<Head(order)>> \o Listing(Tail(order), present)
         ELSE Listing(Tail(order), present)

\* The partner path of a file as processFile has RegisterFile compute it.
OtherOf(path) == IF Ext(path) = JsonExt THEN TrimJson(path) ELSE AddJson(path)

NoOp == [op |-> "none", path |-> NullPath, at |-> 0, pre |-> "NONE", partner |-> "NONE",
         rows |-> {}]

StatusBefore(path) == IF path \in DOMAIN files THEN files[path].status ELSE "NONE"

\* The store write op(path) that takes the table from files to files' is recorded.
Record(op, path) ==
    last' = IF env.history
            THEN [op |-> op, path |-> path, at |-> now,
                  pre |-> StatusBefore(path), partner |-> StatusBefore(OtherOf(path)),
                  rows |-> {q \in DOMAIN files \cup DOMAIN files' :
                               \/ q \notin DOMAIN files
                               \/ q \notin DOMAIN files'
                               \/ files[q] # files'[q]}]
            ELSE last

\* Watcher.timers has no entry for the path, no timer was made, no event was seen.
NoTimers == [entry |-> 0, state |-> <<>>, events |-> 0, lastEvent |-> 0, short |-> TRUE,
             since |-> 0, calls |-> 0, missGaps |-> {}, removed |-> FALSE,
             closed |-> FALSE]

\* ExtractMetadata has not been called.
NoCall == [root |-> <<>>, path |-> <<>>, names |-> <<>>, done |-> FALSE,
           context |-> <<>>, meta |-> {}]

\* Only the watch root exists and is watched; the Events channel is empty.
RootOnly == [exist |-> {}, watched |-> {}, events |-> <<>>]

\* Ingester.Stop has not been called.
Running == [stop |-> FALSE, closed |-> FALSE, exited |-> {}, returned |-> FALSE,
            pstop |-> FALSE, pexit |-> FALSE, db |-> FALSE, late |-> {}]

\* What a call of a store method returns: after Store.Close, sql.DB answers every
\* call with an error.
StoreOutcomes == IF shut.db THEN {FALSE} ELSE Outcomes

\* A goroutine calls the store method op: a call on the closed store is kept.
StoreCall(op) == shut' = IF shut.db THEN [shut EXCEPT !.late = @ \cup {op}] ELSE shut

InitWith(scenario) ==
    /\ now = 0
    /\ expectSidecar \in BOOLEAN
    /\ env = scenario
    /\ \E present \in scenario.disks :
          /\ disk = [q \in present |-> [size |-> 1, mtime |-> scenario.clock[1]]]
          /\ scanTodo = Listing(ScanOrder, present)
    /\ files = <<>>
    /\ timers = {}
    /\ userOps = 0
    /\ prod = IdleProducer
    /\ jobs = <<>>
    /\ pending = {}
    /\ wk = [w \in Workers |-> IdleWorker]
    /\ pr = IdlePruner
    /\ confirmed = {}
    /\ last = NoOp
    /\ deb = NoTimers
    /\ dirs = RootOnly
    /\ shut = Running
    /\ extract = NoCall

\* The pruner's configuration: max_data_size_gb in bytes, the watermark percentages
\* and prune_batch_size; and the orphan checker's orphan_check_interval.
PrunerConfig == [maxBytes |-> MaxBytes, high |-> PruneHighWatermarkPercent,
                 low |-> PruneLowWatermarkPercent, batch |-> PruneBatchSize,
                 orphan |-> OrphanCheckInterval]

\* The instants (seconds since the daemon started) at which the clock is read:
\* more than a minute apart, three seconds apart, a minute apart to the second.
ClockInstants == <<0, 61, 64, 125, 185, 190>>
StoreInstants == <<0, 3, 63, 66, 126, 130>>

\* The files found in the watch directory when the daemon starts.
InitialDisks == {{}, {A}, {AJ}, {A, AJ}}

Init == InitWith([paths |-> {A, AJ}, sizes |-> 1..MaxSize, maxOps |-> MaxUserOps,
                  clock |-> SubSeq(ClockInstants, 1, MaxTick + 1),
                  disks |-> InitialDisks, faults |-> TRUE, history |-> FALSE,
        cfg |-> PrunerConfig])


\* ------------------------------------------------- clock, user and watcher

\* The wall clock advances to the next instant.
Tick ==
    /\ now + 1 < Len(env.clock)
    /\ now' = now + 1
    /\ UNCHANGED <<aux, expectSidecar, env, disk, files, timers, scanTodo, userOps,
                   prod, jobs, pending, wk, pr, confirmed, last>>

\* Watcher.start on a CREATE or WRITE event of a file: resetTimer(path).
resetTimer(tm, path) == tm \cup {path}

\* Watcher.start on a RENAME or REMOVE event: cancelTimer(path).
cancelTimer(tm, path) == tm \ {path}

\* The user writes (creates or rewrites) a file; the watcher arms its debounce timer.
UserWrite(path, size) ==
    /\ userOps < env.maxOps
    /\ path \in env.paths
    /\ userOps' = userOps + 1
    /\ disk' = [q \in DOMAIN disk \cup {path} |->
                  IF q = path THEN [size |-> size, mtime |-> Time(now)] ELSE disk[q]]
    /\ timers' = resetTimer(timers, path)
    /\ UNCHANGED <<aux, now, expectSidecar, env, files, scanTodo, prod, jobs, pending, wk, pr,
                   confirmed, last>>

\* The user deletes a file; the watcher cancels its debounce timer.
UserDelete(path) ==
    /\ userOps < env.maxOps
    /\ path \in DOMAIN disk
    /\ userOps' = userOps + 1
    /\ disk' = [q \in DOMAIN disk \ {path} |-> disk[q]]
    /\ timers' = cancelTimer(timers, path)
    /\ UNCHANGED <<aux, now, expectSidecar, env, files, scanTodo, prod, jobs, pending, wk, pr,
                   confirmed, last>>

\* d.DbStore.RegisterFile(path, info.Size(), info.ModTime(), isMeta, expectSidecar)
\* with isMeta = (filepath.Ext(path) == ".json"), committed.
Registers(path) ==
    files' = RegisterFile(files, path, disk[path].size, disk[path].mtime,
                          Ext(path) = JsonExt, expectSidecar)

\* Daemon.processFile(path): stat, then RegisterFile.
\* A failed stat or a failed transaction changes nothing.
processFile(path, dbOk) ==
    IF path \in DOMAIN disk /\ dbOk
    THEN /\ Registers(path)
         /\ Record("RegisterFile", path)
    ELSE UNCHANGED <<files, last>>

\* The debounce timer of path fires: the map entry is deleted and the callback runs.
TimerFire(path) ==
    /\ path \in timers
    /\ timers' = timers \ {path}
    /\ \E dbOk \in Outcomes : processFile(path, dbOk)
    /\ UNCHANGED <<aux, now, expectSidecar, env, disk, scanTodo, userOps, prod, jobs, pending,
                   wk, pr, confirmed>>

\* Daemon.scanExistingFiles: the walk visits the next listed file; a listed file
\* that has vanished makes the walk function return the error, which ends the walk.
ScanStep ==
    /\ scanTodo # <<>>
    /\ LET path == Head(scanTodo)
       IN  IF path \in DOMAIN disk
           THEN /\ scanTodo' = Tail(scanTodo)
                /\ \E dbOk \in StoreOutcomes : processFile(path, dbOk)
                /\ StoreCall("RegisterFile")
           ELSE /\ scanTodo' = <<>>
                /\ UNCHANGED <<files, last, shut>>
    /\ UNCHANGED <<deb, dirs, extract, now, expectSidecar, env, disk, timers, userOps, prod,
                   jobs, pending, wk, pr, confirmed>>

\* --------------------------------------------------------------- watch set
\* fsnotify delivers the events of the directories in its watch set, in order,
\* on the Events channel; Watcher.start receives them one at a time.

\* filepath.Dir(path) of the files of the runs: SC is in SubDir, the others in the root.
InSubDir(path) == path = SC

\* The user creates the directory; the root is watched, so a CREATE event is queued.
UserMkdir ==
    /\ userOps < env.maxOps
    /\ SubDir \notin dirs.exist
    /\ userOps' = userOps + 1
    /\ dirs' = [dirs EXCEPT !.exist = @ \cup {SubDir},
                            !.events = Append(@, [name |-> SubDir, isDir |-> TRUE,
                                                 op |-> "create"])]
    /\ UNCHANGED <<now, expectSidecar, env, disk, files, timers, scanTodo, prod, jobs,
                   pending, wk, pr, confirmed, last, deb, shut, extract>>

\* The user writes a file, in the root or in the directory once it exists; an event
\* is queued if the file's directory is in the watch set at that moment.
UserWriteIn(path, size) ==
    /\ userOps < env.maxOps
    /\ path \in env.paths
    /\ InSubDir(path) => SubDir \in dirs.exist
    /\ userOps' = userOps + 1
    /\ disk' = [q \in DOMAIN disk \cup {path} |->
                  IF q = path THEN [size |-> size, mtime |-> Time(now)] ELSE disk[q]]
    /\ dirs' = IF InSubDir(path) /\ SubDir \notin dirs.watched
               THEN dirs
               ELSE [dirs EXCEPT !.events = Append(@, [name |-> path, isDir |-> FALSE,
                                                       op |-> "write"])]
    /\ UNCHANGED <<now, expectSidecar, env, files, timers, scanTodo, prod, jobs,
                   pending, wk, pr, confirmed, last, deb, shut, extract>>

\* Watcher.AddRecursive(dir): the walk adds dir and the directories below it to the
\* watch set and passes over the files it meets.
AddRecursive(watched, dir) == watched \cup {dir}

\* The operating system reports a change of the directory itself (its entries
\* changed) as a WRITE event of the directory's name, where the platform does so.
DirWrite ==
    /\ userOps < env.maxOps
    /\ SubDir \in dirs.exist
    /\ userOps' = userOps + 1
    /\ dirs' = [dirs EXCEPT !.events = Append(@, [name |-> SubDir, isDir |-> TRUE,
                                                 op |-> "write"])]
    /\ UNCHANGED <<now, expectSidecar, env, disk, files, timers, scanTodo, prod, jobs,
                   pending, wk, pr, confirmed, last, deb, shut, extract>>

\* Watcher.start receives the next event: a CREATE whose name os.Stat finds to be a
\* directory adds it to the watch set (continue); any other CREATE or WRITE has
\* the timer of its name reset.
WatcherReceive ==
    /\ dirs.events # <<>>
    /\ LET event == Head(dirs.events)
       IN  IF event.op = "create" /\ event.isDir
           THEN /\ dirs' = [dirs EXCEPT !.events = Tail(@),
                                        !.watched = AddRecursive(@, event.name)]
                /\ UNCHANGED timers
           ELSE /\ dirs' = [dirs EXCEPT !.events = Tail(@)]
                /\ timers' = resetTimer(timers, event.name)
    /\ UNCHANGED <<now, expectSidecar, env, disk, files, scanTodo, userOps, prod, jobs,
                   pending, wk, pr, confirmed, last, deb, shut, extract>>

\* ---------------------------------------------------------- debounce timers
\* Watcher.resetTimer and the time.AfterFunc timers of one path, with their times.
\* deb.state[k] is the k-th timer made for the path: armed until its deadline
\* at, then stopped by t.Stop() or fired (its function started by the runtime),
\* then done when the function has run.  A timer fires when its deadline is
\* reached: the clock does not pass the deadline of an armed timer.

DebouncePath == A

\* A fault of StopTimer: t.Stop() does nothing.
StopTimerNever(state, k) == state

\* t.Stop() on the timer in the map: an armed timer is stopped, a timer whose
\* function has started is not.
StopTimer(state, k) ==
    IF k # 0 /\ state[k].st = "armed"
    THEN [state EXCEPT ![k].st = "stopped"]
    ELSE state

\* w.timers[path] = time.AfterFunc(w.debounce, ...), at time t.
AfterFunc(state, t) == Append(state, [st |-> "armed", at |-> t + Debounce])

\* Watcher.start receives a CREATE or WRITE event of the path, which the user has
\* just written: resetTimer(path).
WatchEvent ==
    /\ ~deb.closed
    /\ userOps < env.maxOps
    /\ userOps' = userOps + 1
    /\ disk' = [q \in DOMAIN disk \cup {DebouncePath} |->
                  IF q = DebouncePath THEN [size |-> 1, mtime |-> Time(now)] ELSE disk[q]]
    /\ LET gap == Time(now) - deb.lastEvent
           state == AfterFunc(StopTimer(deb.state, deb.entry), Time(now))
       IN  deb' = [deb EXCEPT
                      !.entry = Len(state),
                      !.state = state,
                      !.events = @ + 1,
                      !.lastEvent = Time(now),
                      !.short = @ /\ (deb.events = 0 \/ gap < Debounce),
                      !.since = 0,
                      !.removed = FALSE,
                      !.missGaps = IF deb.events > 0 /\ gap >= Debounce /\ deb.since = 0
                                   THEN @ \cup {gap} ELSE @]
    /\ UNCHANGED <<now, expectSidecar, env, files, timers, scanTodo, prod, jobs, pending,
                   wk, pr, confirmed, last, dirs, shut, extract>>

\* Watcher.start receives a RENAME or REMOVE event of the path, which the user has
\* just removed or renamed away: cancelTimer(path), t.Stop() and delete under w.mu.
WatchRemove ==
    /\ ~deb.closed
    /\ userOps < env.maxOps
    /\ DebouncePath \in DOMAIN disk
    /\ userOps' = userOps + 1
    /\ disk' = [q \in DOMAIN disk \ {DebouncePath} |-> disk[q]]
    /\ deb' = [deb EXCEPT !.state = StopTimer(deb.state, deb.entry),
                          !.entry = 0,
                          !.removed = TRUE]
    /\ UNCHANGED <<now, expectSidecar, env, files, timers, scanTodo, prod, jobs, pending,
                   wk, pr, confirmed, last, dirs, shut, extract>>

\* Watcher.Close: fsWatcher.Close() ends the event loop; under w.mu every timer of
\* the map gets t.Stop() and the map is replaced by an empty one.
WatchClose ==
    /\ ~deb.closed
    /\ deb' = [deb EXCEPT !.state = StopTimer(deb.state, deb.entry),
                          !.entry = 0,
                          !.closed = TRUE]
    /\ UNCHANGED <<now, expectSidecar, env, disk, files, timers, scanTodo, userOps, prod,
                   jobs, pending, wk, pr, confirmed, last, dirs, shut, extract>>

\* The deadline of timer k is reached: the runtime starts its function.
TimerExpire(k) ==
    /\ k \in 1..Len(deb.state)
    /\ deb.state[k].st = "armed"
    /\ deb.state[k].at <= Time(now)
    /\ deb' = [deb EXCEPT !.state[k].st = "fired", !.since = @ + 1]
    /\ UNCHANGED <<now, expectSidecar, env, disk, files, timers, scanTodo, userOps, prod,
                   jobs, pending, wk, pr, confirmed, last, dirs, shut, extract>>

\* The function of timer k runs: under w.mu delete(w.timers, path), whichever timer
\* the entry holds, then w.callback(path), which is Daemon.processFile.
TimerCallback(k) ==
    /\ k \in 1..Len(deb.state)
    /\ deb.state[k].st = "fired"
    /\ deb' = [deb EXCEPT !.state[k].st = "done", !.entry = 0, !.calls = @ + 1]
    /\ \E dbOk \in Outcomes : processFile(DebouncePath, dbOk)
    /\ UNCHANGED <<now, expectSidecar, env, disk, timers, scanTodo, userOps, prod,
                   jobs, pending, wk, pr, confirmed, dirs, shut, extract>>

\* The clock advances, not past the deadline of an armed timer.
DebounceTick ==
    /\ \A k \in 1..Len(deb.state) :
          deb.state[k].st = "armed" => deb.state[k].at > Time(now)
    /\ Tick

\* ------------------------------------------------------------------ reaper

\* A fault of orphanChecker: the timeout has no floor.
OrphanTimeoutNoFloor(orphanInterval) == orphanInterval - 1 * Minute

\* The timeout Daemon.orphanChecker passes to MarkOrphans.
OrphanTimeout(orphanInterval) ==
    LET timeout == orphanInterval - 1 * Minute
    IN  IF timeout < 1 * Minute THEN 1 * Minute ELSE timeout

\* A tick of the orphan checker's ticker: d.DbStore.MarkOrphans(timeout).
ReaperTick ==
    /\ IF shut.db
       THEN UNCHANGED <<files, last>>
       ELSE /\ files' = MarkOrphans(files, Time(now), OrphanTimeout(env.cfg.orphan))
            /\ Record("MarkOrphans", NullPath)
    /\ StoreCall("MarkOrphans")
    /\ UNCHANGED <<deb, dirs, extract, now, expectSidecar, env, disk, timers, scanTodo,
                   userOps, prod, jobs, pending, wk, pr, confirmed>>


\* ---------------------------------------------------------------- producer

\* What a query returns when it fails: processBatch and Prune then return at once,
\* as they do on an empty result.
QueryError == IF env.faults THEN {<<>>} ELSE {}

\* The poll loop's select, case <-ticker.C (taken until the loop has returned):
\* Ingester.processBatch, GetPendingFiles.
ProducerTick ==
    /\ prod.pc = "idle"
    /\ ~shut.closed
    /\ \E batch \in GetPendingFiles(files, IngestBatchSize) \cup QueryError :
          prod' = [pc |-> IF batch = <<>> THEN "idle" ELSE "check", batch |-> batch]
    /\ UNCHANGED <<aux, now, expectSidecar, env, disk, files, timers, scanTodo, userOps,
                   jobs, pending, wk, pr, confirmed, last>>

\* The rest of the loop over the batch after the record at its head.
NextInBatch == IF Len(prod.batch) > 1
               THEN [pc |-> "check", batch |-> Tail(prod.batch)]
               ELSE IdleProducer

\* A fault of processBatch: the in-flight set is not consulted before the send.
ProducerCheckNoSkip ==
    /\ prod.pc = "check"
    /\ pending' = pending \cup {Head(prod.batch).path}
    /\ prod' = [prod EXCEPT !.pc = "send"]
    /\ UNCHANGED <<aux, now, expectSidecar, env, disk, files, timers, scanTodo, userOps,
                   jobs, wk, pr, confirmed, last>>

\* Under pendingMu: skip a path that is in flight, else reserve it.
ProducerCheck ==
    /\ prod.pc = "check"
    /\ LET f == Head(prod.batch)
       IN  IF f.path \in pending
           THEN /\ prod' = NextInBatch
                /\ UNCHANGED pending
           ELSE /\ pending' = pending \cup {f.path}
                /\ prod' = [prod EXCEPT !.pc = "send"]
    /\ UNCHANGED <<aux, now, expectSidecar, env, disk, files, timers, scanTodo, userOps,
                   jobs, wk, pr, confirmed, last>>

\* select { case i.jobs <- f: ; default: } on the buffered channel.
ProducerSend ==
    /\ prod.pc = "send"
    /\ IF Len(jobs) < IngestBatchSize
       THEN /\ jobs' = Append(jobs, Head(prod.batch))
            /\ prod' = NextInBatch
       ELSE /\ prod' = [prod EXCEPT !.pc = "undo"]
            /\ UNCHANGED jobs
    /\ UNCHANGED <<aux, now, expectSidecar, env, disk, files, timers, scanTodo, userOps,
                   pending, wk, pr, confirmed, last>>

\* Channel full: under pendingMu, release the reservation and skip the record.
ProducerUndo ==
    /\ prod.pc = "undo"
    /\ pending' = pending \ {Head(prod.batch).path}
    /\ prod' = NextInBatch
    /\ UNCHANGED <<aux, now, expectSidecar, env, disk, files, timers, scanTodo, userOps,
                   jobs, wk, pr, confirmed, last>>

\* ------------------------------------------------------------------ worker

\* What the remote (or the transport, 0) can answer to a request.
HttpStatuses == {0, StatusOK, StatusCreated, 500}

\* The answers to a request op: any, or the accepting one when nothing fails.
Remote(op) ==
    IF env.faults THEN HttpStatuses
    ELSE {IF op = "ingest" THEN StatusCreated ELSE StatusOK}

\* Client.Ingest succeeds on 201 Created only.
IngestOk(st) == st = StatusCreated
\* A fault of uploadFile: any answer of the server counts as success.
UploadOkAnyAnswer(st) == st # 0
\* Uploader.uploadFile succeeds on any 2xx.
UploadOk(st) == st >= 200 /\ st < 300
\* A fault of ConfirmOk: any 2xx counts as accepted.
ConfirmOkAny2xx(st) == st >= 200 /\ st < 300
\* Client.Confirm succeeds on 200 OK only.
ConfirmOk(st) == st = StatusOK

\* f.PartnerPath.Valid && f.PartnerPath.String != ""
HasPartner(f) == f.partner_path # NullPath

Goto(w, pc) == wk' = [wk EXCEPT ![w].pc = pc]
Sent(w, op, st, pc) ==
    wk' = [wk EXCEPT ![w].pc = pc, ![w].trace = Append(@, <<op, st>>)]

\* Ingester.worker: receive the next job from the channel and call Process.
WorkerReceive(w) ==
    /\ wk[w].pc = "idle"
    /\ jobs # <<>>
    /\ jobs' = Tail(jobs)
    /\ wk' = [wk EXCEPT ![w] = [IdleWorker EXCEPT !.pc = "process", !.f = Head(jobs)]]
    /\ UNCHANGED <<aux, now, expectSidecar, env, disk, files, timers, scanTodo, userOps,
                   prod, pending, pr, confirmed, last>>

\* Uploader.Process step 0.5: the device context is the partner file as it is read
\* now, or empty when the record has no partner path or the file cannot be opened
\* or decoded. What was loaded is kept in the runs that keep history.
LoadContext(f, readOk) ==
    IF env.history /\ HasPartner(f) /\ f.partner_path \in DOMAIN disk /\ readOk
    THEN disk[f.partner_path]
    ELSE NoContent

\* Uploader.Process steps 0 and 0.5: a .json record with a partner path is skipped;
\* otherwise the device context is loaded and the checksum is started.
WorkerStart(w) ==
    /\ wk[w].pc = "process"
    /\ IF Ext(wk[w].f.path) = JsonExt /\ HasPartner(wk[w].f)
       THEN Goto(w, "release")
       ELSE \E readOk \in Outcomes :
               wk' = [wk EXCEPT ![w].pc = "hash", ![w].ctx = LoadContext(wk[w].f, readOk)]
    /\ UNCHANGED <<aux, now, expectSidecar, env, disk, files, timers, scanTodo, userOps,
                   prod, jobs, pending, pr, confirmed, last>>

\* A fault of Process: a missing file is handled as any other checksum error.
WorkerHashKeepsVanished(w) ==
    /\ wk[w].pc = "hash"
    /\ IF wk[w].f.path \notin DOMAIN disk
       THEN Goto(w, "release")
       ELSE \E readOk \in Outcomes : Goto(w, IF readOk THEN "ingest" ELSE "release")
    /\ UNCHANGED <<aux, now, expectSidecar, env, disk, files, timers, scanTodo, userOps,
                   prod, jobs, pending, pr, confirmed, last>>

\* calculateSHA256: ENOENT when the file is gone, else the sum or a read error.
WorkerHash(w) ==
    /\ wk[w].pc = "hash"
    /\ IF wk[w].f.path \notin DOMAIN disk
       THEN Goto(w, "vanished")
       ELSE \E readOk \in Outcomes : Goto(w, IF readOk THEN "ingest" ELSE "release")
    /\ UNCHANGED <<aux, now, expectSidecar, env, disk, files, timers, scanTodo, userOps,
                   prod, jobs, pending, pr, confirmed, last>>

\* os.IsNotExist(res.err): _ = u.store.RemoveFile(f.Path)
WorkerVanished(w) ==
    /\ wk[w].pc = "vanished"
    /\ \E dbOk \in Outcomes :
          IF dbOk
          THEN /\ files' = RemoveFile(files, wk[w].f.path)
               /\ Record("RemoveFile", wk[w].f.path)
          ELSE UNCHANGED <<files, last>>
    /\ Goto(w, "release")
    /\ UNCHANGED <<aux, now, expectSidecar, env, disk, timers, scanTodo, userOps,
                   prod, jobs, pending, pr, confirmed>>

\* u.apiClient.Ingest(req)
WorkerIngest(w) ==
    /\ wk[w].pc = "ingest"
    /\ \E st \in Remote("ingest") :
          Sent(w, "ingest", st, IF IngestOk(st) THEN "put" ELSE "release")
    /\ UNCHANGED <<aux, now, expectSidecar, env, disk, files, timers, scanTodo, userOps,
                   prod, jobs, pending, pr, confirmed, last>>

\* u.uploadFile: no request is sent when the file cannot be opened; else the file
\* as it is now is the body of the PUT.
WorkerPut(w) ==
    /\ wk[w].pc = "put"
    /\ IF wk[w].f.path \notin DOMAIN disk
       THEN Goto(w, "confirmFailed")
       ELSE \E st \in Remote("put") :
               wk' = [wk EXCEPT ![w].pc = IF UploadOk(st) THEN "confirm" ELSE "confirmFailed",
                                ![w].trace = Append(@, <<"put", st>>),
                                ![w].sent = disk[wk[w].f.path]]
    /\ UNCHANGED <<aux, now, expectSidecar, env, disk, files, timers, scanTodo, userOps,
                   prod, jobs, pending, pr, confirmed, last>>

\* _ = u.apiClient.Confirm(failReq)
WorkerConfirmFailed(w) ==
    /\ wk[w].pc = "confirmFailed"
    /\ \E st \in Remote("confirm") : Sent(w, "confirmFAILED", st, "release")
    /\ UNCHANGED <<aux, now, expectSidecar, env, disk, files, timers, scanTodo, userOps,
                   prod, jobs, pending, pr, confirmed, last>>

\* u.apiClient.Confirm(confirmReq) with status SUCCESS
WorkerConfirm(w) ==
    /\ wk[w].pc = "confirm"
    /\ \E st \in Remote("confirm") :
          /\ Sent(w, "confirmSUCCESS", st, IF ConfirmOk(st) THEN "mark" ELSE "release")
          /\ confirmed' = IF ConfirmOk(st)
                          THEN confirmed \cup {<<wk[w].f.path, wk[w].sent.size,
                                                  wk[w].sent.mtime>>}
                          ELSE confirmed
    /\ UNCHANGED <<aux, now, expectSidecar, env, disk, files, timers, scanTodo, userOps,
                   prod, jobs, pending, pr, last>>

\* u.store.MarkUploaded(f.Path); on error the partner is not marked.
WorkerMark(w) ==
    /\ wk[w].pc = "mark"
    /\ \E dbOk \in Outcomes :
          IF dbOk
          THEN /\ files' = MarkUploaded(files, wk[w].f.path, Time(now))
               /\ Record("MarkUploaded", wk[w].f.path)
               /\ Goto(w, IF HasPartner(wk[w].f) THEN "markPartner" ELSE "release")
          ELSE /\ UNCHANGED <<files, last>>
               /\ Goto(w, "release")
    /\ UNCHANGED <<aux, now, expectSidecar, env, disk, timers, scanTodo, userOps,
                   prod, jobs, pending, pr, confirmed>>

\* u.store.MarkUploaded(f.PartnerPath.String); its error is only logged.
WorkerMarkPartner(w) ==
    /\ wk[w].pc = "markPartner"
    /\ \E dbOk \in Outcomes :
          IF dbOk
          THEN /\ files' = MarkUploaded(files, wk[w].f.partner_path, Time(now))
               /\ Record("MarkUploaded", wk[w].f.partner_path)
          ELSE UNCHANGED <<files, last>>
    /\ Goto(w, "release")
    /\ UNCHANGED <<aux, now, expectSidecar, env, disk, timers, scanTodo, userOps,
                   prod, jobs, pending, pr, confirmed>>

\* Ingester.worker after Process returns: delete(i.pending, f.Path) under pendingMu.
WorkerRelease(w) ==
    /\ wk[w].pc = "release"
    /\ pending' = pending \ {wk[w].f.path}
    /\ wk' = [wk EXCEPT ![w] = IdleWorker]
    /\ UNCHANGED <<aux, now, expectSidecar, env, disk, files, timers, scanTodo, userOps,
                   prod, jobs, pr, confirmed, last>>


\* ------------------------------------------------------------------ pruner

\* A configured percentage, or the default when it is not positive.
Mark(percent, default) == IF percent <= 0 THEN default ELSE percent

\* int64(float64(maxBytes) * float64(mark) / 100.0)
WatermarkBytes(maxBytes, mark) == (maxBytes * mark) \div 100

highWatermarkBytes == WatermarkBytes(env.cfg.maxBytes, Mark(env.cfg.high, DefaultHighMark))
lowWatermarkBytes == WatermarkBytes(env.cfg.maxBytes, Mark(env.cfg.low, DefaultLowMark))

\* The pruner loop's select, case <-ticker.C (taken until the loop has returned):
\* Pruner.Prune, GetTotalSize and the high-watermark test. A query error returns
\* at once.
PruneTick ==
    /\ pr.pc = "idle"
    /\ ~shut.pexit
    /\ \E dbOk \in StoreOutcomes :
          LET currentSize == GetTotalSize(files)
          IN  pr' = IF dbOk /\ currentSize > highWatermarkBytes
                    THEN [IdlePruner EXCEPT !.pc = "fetch", !.currentSize = currentSize]
                    ELSE IdlePruner
    /\ StoreCall("GetTotalSize")
    /\ UNCHANGED <<deb, dirs, extract, now, expectSidecar, env, disk, files, timers, scanTodo,
                   userOps, prod, jobs, pending, wk, confirmed, last>>

\* The head of the eviction loop: the loop test, then GetPruneCandidates.
\* A query error or an empty result (back-pressure) ends the cycle.
PruneFetch ==
    /\ pr.pc = "fetch"
    /\ IF pr.currentSize > lowWatermarkBytes
       THEN /\ \E candidates \in IF shut.db THEN {<<>>}
                                  ELSE GetPruneCandidates(files, env.cfg.batch)
                                          \cup QueryError :
                  pr' = IF candidates = <<>>
                        THEN IdlePruner
                        ELSE [pr EXCEPT !.pc = "unlink", !.candidates = candidates,
                                        !.idx = 1, !.deletedCount = 0]
            /\ StoreCall("GetPruneCandidates")
       ELSE /\ pr' = IdlePruner
            /\ UNCHANGED shut
    /\ UNCHANGED <<deb, dirs, extract, now, expectSidecar, env, disk, files, timers, scanTodo,
                   userOps, prod, jobs, pending, wk, confirmed, last>>

\* An eviction that goes on to the next fetch after a batch without a deletion.
AfterCandidateNoAbort(p, break) ==
    IF ~break /\ p.idx < Len(p.candidates)
    THEN [p EXCEPT !.pc = "unlink", !.idx = p.idx + 1]
    ELSE [p EXCEPT !.pc = "fetch", !.candidates = <<>>, !.idx = 0]

\* An eviction that finishes its batch after the low watermark is reached.
AfterCandidateNoBreak(p, break) ==
    IF p.idx < Len(p.candidates)
    THEN [p EXCEPT !.pc = "unlink", !.idx = p.idx + 1]
    ELSE IF p.deletedCount = 0
         THEN IdlePruner
         ELSE [p EXCEPT !.pc = "fetch", !.candidates = <<>>, !.idx = 0]

\* An eviction that ends the cycle after its first batch.
AfterCandidateOneBatch(p, break) ==
    IF ~break /\ p.idx < Len(p.candidates)
    THEN [p EXCEPT !.pc = "unlink", !.idx = p.idx + 1]
    ELSE IdlePruner

\* Where the eviction goes after the candidate at idx: the next candidate, or after
\* the batch the next fetch, or the end of the cycle when nothing was deleted.
AfterCandidate(p, break) ==
    IF ~break /\ p.idx < Len(p.candidates)
    THEN [p EXCEPT !.pc = "unlink", !.idx = p.idx + 1]
    ELSE IF p.deletedCount = 0
         THEN IdlePruner
         ELSE [p EXCEPT !.pc = "fetch", !.candidates = <<>>, !.idx = 0]

\* The candidate the pruner is at.
Candidate == pr.candidates[pr.idx]

\* os.Remove(f.Path): done, ENOENT (not an error), or another error (continue).
PruneUnlink ==
    /\ pr.pc = "unlink"
    /\ \E rmOk \in Outcomes :
          IF rmOk \/ Candidate.path \notin DOMAIN disk
          THEN /\ disk' = [q \in DOMAIN disk \ {Candidate.path} |-> disk[q]]
               /\ timers' = IF Candidate.path \in DOMAIN disk
                            THEN cancelTimer(timers, Candidate.path) ELSE timers
               /\ pr' = [pr EXCEPT !.pc = "remove",
                                    !.evicted = IF env.history /\ Candidate.path \in DOMAIN disk
                                                THEN Append(@, Candidate) ELSE @]
          ELSE /\ pr' = AfterCandidate(pr, FALSE)
               /\ UNCHANGED <<disk, timers>>
    /\ UNCHANGED <<aux, now, expectSidecar, env, files, scanTodo, userOps,
                   prod, jobs, pending, wk, confirmed, last>>

\* p.store.RemoveFile(f.Path), the running total, and the low-watermark test.
PruneRemove ==
    /\ pr.pc = "remove"
    /\ StoreCall("RemoveFile")
    /\ \E dbOk \in StoreOutcomes :
          LET p1 == IF dbOk
                    THEN [pr EXCEPT !.currentSize = @ - Candidate.size,
                                    !.deletedCount = @ + 1]
                    ELSE pr
          IN  /\ IF dbOk
                 THEN /\ files' = RemoveFile(files, Candidate.path)
                      /\ Record("RemoveFile", Candidate.path)
                 ELSE UNCHANGED <<files, last>>
              /\ pr' = AfterCandidate(p1, p1.currentSize <= lowWatermarkBytes)
    /\ UNCHANGED <<deb, dirs, extract, now, expectSidecar, env, disk, timers, scanTodo,
                   userOps, prod, jobs, pending, wk, confirmed>>

\* ------------------------------------------------------ metadata extraction
\* Paths are strings, the sequences of their characters.

\* os.PathSeparator, and the names "." and "..".
Sep == "/"
Dot == <<".">>
DotDot == <<".", ".">>

\* strings.Split(str, "/"): the pieces between the separators, empty ones included.
RECURSIVE Split(_)
Split(str) ==
    IF str = <<>> THEN << <<>> >>
    ELSE LET rest == Split(Tail(str))
         IN  IF Head(str) = Sep
             THEN << <<>> >> \o rest
             ELSE << <<Head(str)>> \o Head(rest) >> \o Tail(rest)

\* strings.Join(parts, "/")
RECURSIVE JoinSep(_)
JoinSep(parts) ==
    IF parts = <<>> THEN <<>>
    ELSE IF Len(parts) = 1 THEN parts[1]
    ELSE parts[1] \o <<Sep>> \o JoinSep(Tail(parts))

\* The loop of filepath.Clean over the elements: empty and "." elements are dropped,
\* ".." removes the element before it, is dropped at the root of a rooted path and
\* is kept at the front of a relative one.
RECURSIVE CleanElems(_, _, _)
CleanElems(parts, out, rooted) ==
    IF parts = <<>> THEN out
    ELSE LET e == Head(parts)
         IN  IF e = <<>> \/ e = Dot
             THEN CleanElems(Tail(parts), out, rooted)
             ELSE IF e = DotDot
                  THEN IF out # <<>> /\ out[Len(out)] # DotDot
                       THEN CleanElems(Tail(parts), SubSeq(out, 1, Len(out) - 1), rooted)
                       ELSE IF rooted
                            THEN CleanElems(Tail(parts), out, rooted)
                            ELSE CleanElems(Tail(parts), Append(out, e), rooted)
                  ELSE CleanElems(Tail(parts), Append(out, e), rooted)

Rooted(str) == str # <<>> /\ Head(str) = Sep

\* filepath.Clean
Clean(str) ==
    LET body == JoinSep(CleanElems(Split(str), <<>>, Rooted(str)))
    IN  IF Rooted(str) THEN <<Sep>> \o body
        ELSE IF body = <<>> THEN Dot ELSE body

\* filepath.Join: empty elements are ignored and the result is cleaned.
Join(elems) ==
    LET nonEmpty == SelectSeq(elems, LAMBDA e : e # <<>>)
    IN  IF nonEmpty = <<>> THEN <<>> ELSE Clean(JoinSep(nonEmpty))

\* The elements of a cleaned path.
Elems(str) == SelectSeq(Split(str), LAMBDA e : e # <<>>)

\* The length of the longest common prefix of two sequences.
RECURSIVE CommonPrefix(_, _)
CommonPrefix(xs, ys) ==
    IF xs = <<>> \/ ys = <<>> \/ Head(xs) # Head(ys) THEN 0
    ELSE 1 + CommonPrefix(Tail(xs), Tail(ys))

\* filepath.Rel(basepath, targpath): [err, rel]. It fails when only one of the two
\* is rooted, or when the base has a ".." where the two part.
Rel(basepath, targpath) ==
    LET base0 == Clean(basepath)
        targ == Clean(targpath)
        base == IF base0 = Dot THEN <<>> ELSE base0
        bs == Elems(base)
        ts == Elems(targ)
        k == CommonPrefix(bs, ts)
        up == [i \in 1..(Len(bs) - k) |-> DotDot]
    IN  IF targ = base0 THEN [err |-> FALSE, rel |-> Dot]
        ELSE IF Rooted(base) # Rooted(targ) THEN [err |-> TRUE, rel |-> <<>>]
        ELSE IF k < Len(bs) /\ bs[k + 1] = DotDot THEN [err |-> TRUE, rel |-> <<>>]
        ELSE [err |-> FALSE, rel |-> JoinSep(up \o SubSeq(ts, k + 1, Len(ts)))]

\* The index of the last separator of a string, 0 if it has none.
LastSep(str) ==
    LET at == {i \in DOMAIN str : str[i] = Sep}
    IN  IF at = {} THEN 0 ELSE CHOOSE i \in at : \A j \in at : j <= i

\* A fault of Dir: the last element is not cut off.
DirWhole(path) == Clean(path)

\* filepath.Dir: all but the last element, cleaned.
Dir(path) == Clean(SubSeq(path, 1, LastSep(path)))

\* The loop of ExtractMetadata over the parts from index i: "." and "" are passed
\* over, the others are appended to context and stored under the key dir_<i>.
RECURSIVE Collect(_, _, _)
Collect(parts, i, acc) ==
    IF i >= Len(parts) THEN acc
    ELSE LET part == parts[i + 1]
         IN  IF part = Dot \/ part = <<>>
             THEN Collect(parts, i + 1, acc)
             ELSE Collect(parts, i + 1,
                          [context |-> Append(acc.context, part),
                           meta |-> acc.meta \cup {<<<<"dir_", i>>, part>>}])

\* util.ExtractMetadata(root, path): [context, meta].
ExtractMetadata(root, path) ==
    LET none == [context |-> <<>>, meta |-> {}]
        r == Rel(root, path)
    IN  IF r.err THEN none
        ELSE IF Dir(r.rel) = Dot THEN none
        ELSE Collect(Split(Dir(r.rel)), 0, none)

\* The file name of the paths that are built.
FileName == <<"f">>

\* A call of ExtractMetadata with the watch root and the path made by joining the
\* root, the directory names and the file name.
ExtractStep ==
    /\ ~extract.done
    /\ LET path == Join(<<env.root>> \o env.names \o <<FileName>>)
           res == ExtractMetadata(env.root, path)
       IN  extract' = [root |-> env.root, path |-> path, names |-> env.names,
                       done |-> TRUE, context |-> res.context, meta |-> res.meta]
    /\ UNCHANGED <<deb, dirs, shut, now, expectSidecar, env, disk, files, timers, scanTodo,
                   userOps, prod, jobs, pending, wk, pr, confirmed, last>>

\* ---------------------------------------------------------------- shutdown

\* Ingester.Stop, first statement: close(i.stop).
StopCall ==
    /\ ~shut.stop
    /\ shut' = [shut EXCEPT !.stop = TRUE]
    /\ UNCHANGED <<extract, deb, dirs, now, expectSidecar, env, disk, files, timers, scanTodo,
                   userOps, prod, jobs, pending, wk, pr, confirmed, last>>

\* A fault of the shutdown: the channel is closed as soon as stop is signalled,
\* wherever the poll loop is.
ProducerStopAnywhere ==
    /\ shut.stop
    /\ ~shut.closed
    /\ shut' = [shut EXCEPT !.closed = TRUE]
    /\ UNCHANGED <<extract, deb, dirs, now, expectSidecar, env, disk, files, timers, scanTodo,
                   userOps, prod, jobs, pending, wk, pr, confirmed, last>>

\* The poll loop's select, case <-i.stop: close(i.jobs) and return.
ProducerStop ==
    /\ prod.pc = "idle"
    /\ shut.stop
    /\ ~shut.closed
    /\ shut' = [shut EXCEPT !.closed = TRUE]
    /\ UNCHANGED <<extract, deb, dirs, now, expectSidecar, env, disk, files, timers, scanTodo,
                   userOps, prod, jobs, pending, wk, pr, confirmed, last>>

\* A fault of the worker: it returns as soon as the channel is closed.
WorkerExitUndrained(w) ==
    /\ wk[w].pc = "idle"
    /\ w \notin shut.exited
    /\ shut.closed
    /\ shut' = [shut EXCEPT !.exited = @ \cup {w}]
    /\ UNCHANGED <<extract, deb, dirs, now, expectSidecar, env, disk, files, timers, scanTodo,
                   userOps, prod, jobs, pending, wk, pr, confirmed, last>>

\* Ingester.worker: for f := range i.jobs ends when the channel is closed and empty.
WorkerExit(w) ==
    /\ wk[w].pc = "idle"
    /\ w \notin shut.exited
    /\ shut.closed
    /\ jobs = <<>>
    /\ shut' = [shut EXCEPT !.exited = @ \cup {w}]
    /\ UNCHANGED <<extract, deb, dirs, now, expectSidecar, env, disk, files, timers, scanTodo,
                   userOps, prod, jobs, pending, wk, pr, confirmed, last>>

\* Ingester.Stop, second statement: i.wg.Wait() returns when the poll loop and all
\* workers have returned.
StopReturn ==
    /\ shut.stop
    /\ ~shut.returned
    /\ shut.closed
    /\ shut.exited = Workers
    /\ shut' = [shut EXCEPT !.returned = TRUE]
    /\ UNCHANGED <<extract, deb, dirs, now, expectSidecar, env, disk, files, timers, scanTodo,
                   userOps, prod, jobs, pending, wk, pr, confirmed, last>>

\* Daemon.Stop after IngesterSvc.Stop has returned: PrunerSvc.Stop, close(p.stop).
PrunerStop ==
    /\ shut.returned
    /\ ~shut.pstop
    /\ shut' = [shut EXCEPT !.pstop = TRUE]
    /\ UNCHANGED <<extract, deb, dirs, now, expectSidecar, env, disk, files, timers, scanTodo,
                   userOps, prod, jobs, pending, wk, pr, confirmed, last>>

\* The pruner loop's select, case <-p.stop: ticker.Stop() and return.
PrunerExit ==
    /\ pr.pc = "idle"
    /\ shut.pstop
    /\ ~shut.pexit
    /\ shut' = [shut EXCEPT !.pexit = TRUE]
    /\ UNCHANGED <<extract, deb, dirs, now, expectSidecar, env, disk, files, timers, scanTodo,
                   userOps, prod, jobs, pending, wk, pr, confirmed, last>>

\* Daemon.Stop, last statement: DbStore.Close(), and Stop returns.
StoreClose ==
    /\ shut.pstop
    /\ ~shut.db
    /\ shut' = [shut EXCEPT !.db = TRUE]
    /\ UNCHANGED <<extract, deb, dirs, now, expectSidecar, env, disk, files, timers, scanTodo,
                   userOps, prod, jobs, pending, wk, pr, confirmed, last>>

\* ----------------------------------------------------------- specifications

UserWrites == \E path \in env.paths : \E size \in env.sizes : UserWrite(path, size)

UserDeletes == \E path \in env.paths : UserDelete(path)

User == UserWrites \/ UserDeletes

Watcher == \E path \in env.paths : TimerFire(path)

Producer == ProducerTick \/ ProducerCheck \/ ProducerSend \/ ProducerUndo

\* The steps of Uploader.Process that do not write to the store.
WorkerUpload(w) ==
    \/ WorkerReceive(w)
    \/ WorkerStart(w)
    \/ WorkerHash(w)
    \/ WorkerIngest(w)
    \/ WorkerPut(w)
    \/ WorkerConfirmFailed(w)
    \/ WorkerConfirm(w)
    \/ WorkerRelease(w)

\* The steps of Uploader.Process that write to the store.
WorkerCommit(w) ==
    \/ WorkerVanished(w)
    \/ WorkerMark(w)
    \/ WorkerMarkPartner(w)

Pruner == PruneTick \/ PruneFetch \/ PruneUnlink \/ PruneRemove

\* The daemon: every goroutine takes its steps in any order.
Next ==
    \/ Tick
    \/ User
    \/ Watcher
    \/ ScanStep
    \/ ReaperTick
    \/ Producer
    \/ \E w \in Workers : WorkerUpload(w) \/ WorkerCommit(w)
    \/ Pruner

Spec == Init /\ [][Next]_vars

\* The store under the daemon's registrations and the orphan checker, with
\* MarkUploaded and RemoveFile called at any time on any row, as the ingester
\* and the pruner may.
StoreMarkUploaded(path) ==
    /\ path \in DOMAIN files
    /\ files' = MarkUploaded(files, path, Time(now))
    /\ Record("MarkUploaded", path)
    /\ UNCHANGED <<aux, now, expectSidecar, env, disk, timers, scanTodo, userOps,
                   prod, jobs, pending, wk, pr, confirmed>>

StoreRemoveFile(path) ==
    /\ path \in DOMAIN files
    /\ files' = RemoveFile(files, path)
    /\ Record("RemoveFile", path)
    /\ UNCHANGED <<aux, now, expectSidecar, env, disk, timers, scanTodo, userOps,
                   prod, jobs, pending, wk, pr, confirmed>>

InitStore == InitWith([paths |-> {A, AJ, B}, sizes |-> 1..MaxSize, maxOps |-> MaxUserOps,
                       clock |-> SubSeq(StoreInstants, 1, MaxTick + 2),
                       disks |-> InitialDisks, faults |-> TRUE, history |-> TRUE,
        cfg |-> PrunerConfig])

NextStore ==
    \/ Tick
    \/ User
    \/ Watcher
    \/ ScanStep
    \/ ReaperTick
    \/ \E path \in env.paths : StoreMarkUploaded(path)
    \/ \E path \in env.paths : StoreRemoveFile(path)

SpecStore == InitStore /\ [][NextStore]_vars

\* The store and the watch directory as in SpecStore, and the pruner, with no
\* store write (RegisterFile, MarkOrphans, MarkUploaded, another caller's
\* RemoveFile) while a Prune cycle is running.
InitPrune == InitWith([paths |-> {A, AJ, B}, sizes |-> 1..MaxSize, maxOps |-> MaxUserOps,
                       clock |-> SubSeq(ClockInstants, 1, MaxTick + 1),
                       disks |-> InitialDisks, faults |-> TRUE, history |-> FALSE,
        cfg |-> PrunerConfig])

NoPrune == pr.pc = "idle"

NextPrune ==
    \/ Tick
    \/ User
    \/ NoPrune /\ Watcher
    \/ NoPrune /\ ScanStep
    \/ NoPrune /\ ReaperTick
    \/ \E path \in env.paths : NoPrune /\ StoreMarkUploaded(path)
    \/ \E path \in env.paths : NoPrune /\ StoreRemoveFile(path)
    \/ Pruner

SpecPrune == InitPrune /\ [][NextPrune]_vars

\* The daemon with nothing failing (files readable, statements committed, a remote
\* that accepts every request), a user who only writes, and every goroutine
\* scheduled fairly.
InitLive == InitWith([paths |-> {B}, sizes |-> 1..MaxSize, maxOps |-> MaxUserOps,
                      clock |-> SubSeq(ClockInstants, 1, MaxTick + 4),
                      disks |-> {{}, {AJ}}, faults |-> FALSE, history |-> FALSE,
        cfg |-> PrunerConfig])

LiveWorker(w) ==
    \/ WorkerReceive(w)
    \/ WorkerStart(w)
    \/ WorkerHash(w)
    \/ WorkerIngest(w)
    \/ WorkerPut(w)
    \/ WorkerConfirm(w)
    \/ WorkerMark(w)
    \/ WorkerMarkPartner(w)
    \/ WorkerRelease(w)

NextLive ==
    \/ Tick
    \/ UserWrites
    \/ Watcher
    \/ ScanStep
    \/ ReaperTick
    \/ Producer
    \/ \E w \in Workers : LiveWorker(w)

Fairness ==
    /\ WF_vars(Tick)
    /\ WF_vars(Watcher)
    /\ WF_vars(ScanStep)
    /\ WF_vars(ReaperTick)
    /\ WF_vars(Producer)
    /\ \A w \in Workers : WF_vars(LiveWorker(w))

LiveSpec == InitLive /\ [][NextLive]_vars /\ Fairness

\* The daemon with nothing failing and every goroutine scheduled fairly, a pair of
\* files in the watch directory at start, and a user who writes and deletes.
InitVanish == InitWith([paths |-> {A, AJ}, sizes |-> 1..MaxSize, maxOps |-> MaxUserOps,
                        clock |-> SubSeq(ClockInstants, 1, MaxTick + 1),
                        disks |-> {{A, AJ}}, faults |-> FALSE, history |-> FALSE,
                        cfg |-> PrunerConfig])

VanishWorker(w) == LiveWorker(w) \/ WorkerVanished(w) \/ WorkerConfirmFailed(w)

NextVanish ==
    \/ Tick
    \/ User
    \/ Watcher
    \/ ScanStep
    \/ ReaperTick
    \/ Producer
    \/ \E w \in Workers : VanishWorker(w)

SpecVanish ==
    /\ InitVanish
    /\ [][NextVanish]_vars
    /\ WF_vars(Tick) /\ WF_vars(Watcher) /\ WF_vars(ScanStep) /\ WF_vars(ReaperTick)
    /\ WF_vars(Producer)
    /\ \A w \in Workers : WF_vars(VanishWorker(w))

\* The daemon with a datum in the watch directory at start, with or without its
\* sidecar, a user who writes and deletes, reads and statements that may fail, and the device
\* context of each run kept.
InitContext == InitWith([paths |-> {A, AJ}, sizes |-> 1..MaxSize, maxOps |-> MaxUserOps,
                         clock |-> SubSeq(ClockInstants, 1, MaxTick + 1),
                         disks |-> {{A}, {A, AJ}}, faults |-> TRUE, history |-> TRUE,
                         cfg |-> PrunerConfig])

NextContext ==
    \/ Tick
    \/ User
    \/ Watcher
    \/ ScanStep
    \/ ReaperTick
    \/ Producer
    \/ \E w \in Workers : WorkerUpload(w) \/ WorkerCommit(w)

SpecContext == InitContext /\ [][NextContext]_vars

\* The registrations of a chain of names: a.png, a.png.json and a.png.json.json are
\* written in any order into an empty watch directory and registered by the
\* watcher's callback; statements may fail.
AJJ == AddJson(AJ)

InitChain == InitWith([paths |-> {A, AJ, AJJ}, sizes |-> 1..MaxSize, maxOps |-> MaxUserOps + 1,
                       clock |-> SubSeq(ClockInstants, 1, MaxTick + 1),
                       disks |-> {{}}, faults |-> TRUE, history |-> FALSE,
                       cfg |-> PrunerConfig])

NextChain ==
    \/ Tick
    \/ UserWrites
    \/ Watcher

SpecChain == InitChain /\ [][NextChain]_vars

\* The watcher's timers of one path, with a clock of whole seconds: the file is
\* written at any instants, and each write is one event received at that instant.
UnitInstants == <<0, 1, 2, 3, 4, 5, 6, 7, 8>>

InitDebounce == InitWith([paths |-> {DebouncePath}, sizes |-> 1..MaxSize,
                          maxOps |-> MaxUserOps + 2,
                          clock |-> SubSeq(UnitInstants, 1, MaxTick + Debounce + 3),
                          disks |-> {{}}, faults |-> TRUE, history |-> FALSE,
        cfg |-> PrunerConfig])

NextDebounce ==
    \/ DebounceTick
    \/ WatchEvent
    \/ \E k \in 1..(MaxUserOps + 2) : TimerExpire(k)
    \/ \E k \in 1..(MaxUserOps + 2) : TimerCallback(k)

SpecDebounce == InitDebounce /\ [][NextDebounce]_vars

\* The same watcher and timers when the user also removes or renames the file.
NextCancel ==
    \/ DebounceTick
    \/ WatchEvent
    \/ WatchRemove
    \/ \E k \in 1..(MaxUserOps + 2) : TimerExpire(k)
    \/ \E k \in 1..(MaxUserOps + 2) : TimerCallback(k)

SpecCancel == InitDebounce /\ [][NextCancel]_vars

\* The same watcher, timers and user when Close is called at any time.
NextClose ==
    \/ DebounceTick
    \/ WatchEvent
    \/ WatchRemove
    \/ WatchClose
    \/ \E k \in 1..(MaxUserOps + 2) : TimerExpire(k)
    \/ \E k \in 1..(MaxUserOps + 2) : TimerCallback(k)

SpecClose == InitDebounce /\ [][NextClose]_vars

\* The watcher with its watch set: an empty watch directory at start, a user who
\* creates the directory and writes files, nothing failing, and the watcher's
\* goroutine and its timers scheduled fairly.
InitWatch == InitWith([paths |-> {B, SC}, sizes |-> 1..MaxSize, maxOps |-> MaxUserOps + 2,
                       clock |-> SubSeq(ClockInstants, 1, MaxTick + 1),
                       disks |-> {{}}, faults |-> FALSE, history |-> FALSE,
        cfg |-> PrunerConfig])

UserWritesIn == \E path \in env.paths : \E size \in env.sizes : UserWriteIn(path, size)

NextWatch ==
    \/ Tick
    \/ UserMkdir
    \/ UserWritesIn
    \/ WatcherReceive
    \/ Watcher

SpecWatch == InitWatch /\ [][NextWatch]_vars /\ WF_vars(WatcherReceive) /\ WF_vars(Watcher)

\* The same watcher when WRITE events of the directory are delivered too.
NextDirs ==
    \/ Tick
    \/ UserMkdir
    \/ UserWritesIn
    \/ DirWrite
    \/ WatcherReceive
    \/ Watcher
    \/ TimerFire(SubDir)

SpecDirs == InitWatch /\ [][NextDirs]_vars

\* The pruner run alone on a table of uploaded and pending data files, each with
\* its file on disk; the table the run starts from is kept in env.table.
EvictNames == <<"f1", "f2", "f3", "f4", "f5", "f6">>
File(i) == <<EvictNames[i], "png">>
IndexOf(path) == CHOOSE i \in 1..Len(EvictNames) : File(i) = path

\* The row of a registered data file, uploaded at instant 0 if it is UPLOADED.
DataRow(path, size, modTime, st) ==
    [size |-> size, mod_time |-> modTime, status |-> st, partner_path |-> AddJson(path),
     uploaded_at |-> IF st = StatusUploaded THEN 0 ELSE NullTime]

\* For each of the first EvictFiles files: no row, or a row of any size, either of
\* two modification times, UPLOADED or PENDING.
RowChoices ==
    {[present |-> FALSE, size |-> 1, mod_time |-> 1, status |-> StatusPending]}
        \cup [present : {TRUE}, size : 1..EvictMaxSize, mod_time : 1..2,
              status : {StatusUploaded, StatusPending}]

TableOf(choice) ==
    [q \in {File(i) : i \in {j \in DOMAIN choice : choice[j].present}} |->
        DataRow(q, choice[IndexOf(q)].size, choice[IndexOf(q)].mod_time,
                choice[IndexOf(q)].status)]

EvictTables == {TableOf(choice) : choice \in [1..EvictFiles -> RowChoices]}

\* The table of TestPruner_Eviction_Hysteresis: file i was modified at instant i.
ExampleTable ==
    [q \in {File(i) : i \in 1..ExampleFiles} |->
        DataRow(q, ExampleSize, IndexOf(q), StatusUploaded)]

EvictScenarios(faults) ==
    {[paths |-> {}, sizes |-> {}, maxOps |-> 0, clock |-> <<0>>, disks |-> {},
      faults |-> faults, history |-> TRUE, cfg |-> cfg, table |-> table] :
        <<cfg, table>> \in
            ([maxBytes : {EvictBudget}, high : {PruneHighWatermarkPercent},
              low : {PruneLowWatermarkPercent}, batch : 1..MaxBatch] \X EvictTables)
            \cup
            ([maxBytes : {ExampleBudget}, high : {ExampleHigh}, low : {ExampleLow},
              batch : 1..MaxBatch] \X {ExampleTable})}

InitEvictFrom(scenarios) ==
    /\ now = 0
    /\ expectSidecar = FALSE
    /\ env \in scenarios
    /\ files = env.table
    /\ disk = [q \in DOMAIN env.table |->
                 [size |-> env.table[q].size, mtime |-> env.table[q].mod_time]]
    /\ scanTodo = <<>>
    /\ timers = {}
    /\ userOps = 0
    /\ prod = IdleProducer
    /\ jobs = <<>>
    /\ pending = {}
    /\ wk = [w \in Workers |-> IdleWorker]
    /\ pr = IdlePruner
    /\ confirmed = {}
    /\ last = NoOp
    /\ deb = NoTimers
    /\ dirs = RootOnly
    /\ shut = Running
    /\ extract = NoCall

InitEvictWith(faults) == InitEvictFrom(EvictScenarios(faults))

\* Every unlink and every store call succeeds, and the pruner keeps being scheduled.
InitEvict == InitEvictWith(FALSE)

SpecEvict == InitEvict /\ [][Pruner]_vars /\ WF_vars(Pruner)

\* Unlinks and store calls may fail.
InitEvictFaulty == InitEvictWith(TRUE)

SpecEvictFaulty == InitEvictFaulty /\ [][Pruner]_vars

\* Unlinks and store calls may fail and the pruner's goroutine keeps running; the
\* tables are those without the last file, and the table of the test.
InitEvictFaultyFair ==
    InitEvictFrom({sc \in EvictScenarios(TRUE) : File(EvictFiles) \notin DOMAIN sc.table})

SpecEvictFaultyFair == InitEvictFaultyFair /\ [][Pruner]_vars /\ WF_vars(Pruner)

\* The ingester from Start to Stop: the initial scan registers the files, nothing
\* fails, Stop is called at any time. The poll loop keeps running its batch, the
\* select takes the stop case at some point once it is ready, workers keep running.
InitStop == InitWith([paths |-> {A, AJ, B}, sizes |-> 1..MaxSize, maxOps |-> MaxUserOps,
                      clock |-> SubSeq(ClockInstants, 1, MaxTick + 1),
                      disks |-> InitialDisks, faults |-> FALSE, history |-> FALSE,
                      cfg |-> PrunerConfig])

InBatch == ProducerCheck \/ ProducerSend \/ ProducerUndo

NextStop ==
    \/ UserWrites
    \/ Watcher
    \/ ScanStep
    \/ Producer
    \/ \E w \in Workers : LiveWorker(w)
    \/ StopCall
    \/ ProducerStop
    \/ \E w \in Workers : WorkerExit(w)
    \/ StopReturn

SpecStop ==
    /\ InitStop
    /\ [][NextStop]_vars
    /\ WF_vars(InBatch)
    /\ SF_vars(ProducerStop)
    /\ \A w \in Workers : WF_vars(LiveWorker(w)) /\ WF_vars(WorkerExit(w))
    /\ WF_vars(StopReturn)

\* The daemon from Start to the end of Daemon.Stop and after it: the files are in
\* the watch directory at the start and nothing is written later (the watcher,
\* closed first by Stop, has no event and no timer); the initial scan, the orphan
\* checker, the pruner and the ingester run, Stop is called at any time, nothing
\* fails before the store is closed.
InitDown == InitWith([paths |-> {A, AJ}, sizes |-> 1..MaxSize, maxOps |-> 0,
                      clock |-> SubSeq(ClockInstants, 1, MaxTick + 1),
                      disks |-> InitialDisks, faults |-> FALSE, history |-> FALSE,
                      cfg |-> PrunerConfig])

NextDown ==
    \/ Tick
    \/ ScanStep
    \/ ReaperTick
    \/ Producer
    \/ \E w \in Workers : LiveWorker(w)
    \/ Pruner
    \/ StopCall
    \/ ProducerStop
    \/ \E w \in Workers : WorkerExit(w)
    \/ StopReturn
    \/ PrunerStop
    \/ PrunerExit
    \/ StoreClose

SpecDown == InitDown /\ [][NextDown]_vars

\* The pruner and the watcher when the user drops a file again at a path whose old
\* copy the pruner is evicting: the candidates are fetched, and the file is written
\* before the unlink of its candidate or between the unlink and RemoveFile. Nothing
\* fails; the files of the table are older than the instants of the run.
RaceInstants == <<3, 4>>

InitRace ==
    InitEvictFrom({[s EXCEPT !.paths = DOMAIN s.table, !.sizes = 1..EvictMaxSize,
                             !.maxOps = MaxUserOps, !.clock = RaceInstants,
                             !.history = FALSE] : s \in EvictScenarios(FALSE)})

ReDrop ==
    /\ pr.pc \in {"unlink", "remove"}
    /\ \E i \in (pr.idx)..Len(pr.candidates) : \E size \in env.sizes :
          UserWrite(pr.candidates[i].path, size)

NextRace == Tick \/ ReDrop \/ Watcher \/ Pruner

SpecRace == InitRace /\ [][NextRace]_vars /\ WF_vars(Watcher) /\ WF_vars(Pruner)

\* The orphan checker with an orphan_check_interval of any whole number of minutes,
\* over files registered at start-up or written later, the clock read every half
\* minute; nothing fails and every store write is recorded.
HalfMinutes == [i \in 1..(2 * MaxIntervalMinutes + 1) |-> (i - 1) * (Minute \div 2)]

InitReaper ==
    \E m \in 0..MaxIntervalMinutes :
        InitWith([paths |-> {A}, sizes |-> 1..MaxSize, maxOps |-> MaxUserOps,
                  clock |-> HalfMinutes, disks |-> {{}, {A}, {AJ}},
                  faults |-> FALSE, history |-> TRUE,
                  cfg |-> [PrunerConfig EXCEPT !.orphan = m * Minute]])

NextReaper == Tick \/ UserWrites \/ Watcher \/ ScanStep \/ ReaperTick

SpecReaper == InitReaper /\ [][NextReaper]_vars

\* ExtractMetadata called once, for a watch root (rooted or not, with or without a
\* trailing separator, the current directory, the empty string) and a path made of
\* up to MaxDirs directory names, none empty or ".", and a file name.
Roots == {<<"/", "d">>, <<"/", "d", "/", "e">>, <<"/", "d", "/">>, <<"/">>,
          <<"d">>, Dot, <<>>}
DirNames == {<<"a">>, <<"b">>, <<".", "a">>, DotDot}
NameLists == UNION {[1..n -> DirNames] : n \in 0..MaxDirs}

InitMeta ==
    \E root \in Roots : \E names \in NameLists :
        InitWith([paths |-> {}, sizes |-> {}, maxOps |-> 0, clock |-> <<0>>,
                  disks |-> {{}}, faults |-> FALSE, history |-> FALSE,
                  cfg |-> PrunerConfig, root |-> root, names |-> names])

SpecMeta == InitMeta /\ [][ExtractStep]_vars

\* ------------------------------------------------------------------ claims

HasRecord(path) == path \in DOMAIN files
StatusOf(path) == files[path].status
IsUploaded(path) == HasRecord(path) /\ StatusOf(path) = StatusUploaded

\* The paths the runs use, and those of them that are data files.
AllPaths == {A, AJ, B}
DataPaths == {p \in AllPaths : Ext(p) # JsonExt}

\* A step in which processFile(p) runs and its RegisterFile commits.
RegisterStep(p) ==
    /\ p \in DOMAIN disk
    /\ TimerFire(p) \/ (scanTodo # <<>> /\ Head(scanTodo) = p /\ ScanStep)
    /\ Registers(p)

\* C1: whenever the pruner issues unlink (os.Remove) for a path, the store record
\* of that path has status UPLOADED at that moment; a record re-registered after
\* GetPruneCandidates is not unlinked.
C1_UnlinkOnlyUploaded ==
    [][PruneUnlink => IsUploaded(Candidate.path)]_vars

\* A .json record that carries a partner path: it is marked by its datum's run.
PairedSidecar(p) == Ext(p) = JsonExt /\ files[p].partner_path # NullPath

\* C2: a record that is not a paired sidecar has status UPLOADED only if the remote
\* accepted the confirm of an upload of the file as the record describes it (its
\* mod_time) or as it was written later; a file rewritten and re-registered while
\* a run uploads the previous content does not end up UPLOADED.
C2_UploadedOnlyIfConfirmed ==
    \A p \in DOMAIN files :
        (StatusOf(p) = StatusUploaded /\ ~PairedSidecar(p))
            => \E c \in confirmed : c[1] = p /\ c[3] >= files[p].mod_time

\* The requests of a run that may commit: ingest answered 201, then the PUT answered
\* 2xx, then confirm SUCCESS answered 200, and nothing else.
CommitTrace(t) ==
    /\ Len(t) = 3
    /\ t[1] = <<"ingest", StatusCreated>>
    /\ t[2][1] = "put" /\ t[2][2] >= 200 /\ t[2][2] < 300
    /\ t[3] = <<"confirmSUCCESS", StatusOK>>

\* C3: a worker is at a MarkUploaded call (of the path or of its partner) only when
\* its run has so far sent, in this order, an ingest request answered 201, a PUT
\* answered 2xx and a confirm SUCCESS answered 200, and no other request.
C3_MarkOnlyAfterConfirm ==
    \A w \in Workers : wk[w].pc \in {"mark", "markPartner"} => CommitTrace(wk[w].trace)

\* C3 happens: a run has marked its path UPLOADED and is about to mark the partner.
C3_Witness ==
    \E w \in Workers :
        /\ wk[w].pc = "markPartner"
        /\ IsUploaded(wk[w].f.path)
        /\ wk[w].trace[2] = <<"put", StatusCreated>>

\* The store rows that are not UPLOADED.
NotUploaded == {q \in DOMAIN files : files[q].status # StatusUploaded}

\* C4: with no store write by anyone else while a Prune cycle runs, a step of the
\* cycle leaves every record that is not UPLOADED, and its file, as they were, and
\* unlinks only files whose record is UPLOADED; a cycle that is above the high
\* watermark and finds no UPLOADED record ends at once, with the table, the
\* directory and GetTotalSize unchanged.
C4_PruneTouchesOnlyUploaded ==
    [][Pruner =>
        /\ \A q \in NotUploaded :
              /\ q \in DOMAIN files' /\ files'[q] = files[q]
              /\ (q \in DOMAIN disk) = (q \in DOMAIN disk')
              /\ q \in DOMAIN disk => disk'[q] = disk[q]
        /\ \A q \in DOMAIN disk \ DOMAIN disk' : IsUploaded(q)
        /\ (pr.pc = "fetch" /\ NotUploaded = DOMAIN files)
              => /\ pr' = IdlePruner
                 /\ files' = files
                 /\ disk' = disk
                 /\ GetTotalSize(files') = GetTotalSize(files)]_vars

\* C4 happens: the cycle has unlinked an UPLOADED candidate, the only one, while an
\* older record that is not UPLOADED keeps its file, and the total after this
\* removal is still above both watermarks.
C4_Witness ==
    /\ pr.pc = "remove"
    /\ IsUploaded(Candidate.path)
    /\ NotUploaded = DOMAIN files \ {Candidate.path}
    /\ Candidate.path \notin DOMAIN disk
    /\ \E q \in NotUploaded : q \in DOMAIN disk /\ files[q].mod_time < Candidate.mod_time
    /\ pr.currentSize - Candidate.size > highWatermarkBytes
    /\ highWatermarkBytes >= lowWatermarkBytes

\* C5 as stated: a record that is UPLOADED and is not removed stays UPLOADED.
C5_UploadedTerminal ==
    [][\A p \in DOMAIN files :
          (IsUploaded(p) /\ p \in DOMAIN files') => files'[p].status = StatusUploaded]_vars

\* C5, amended: a record that is UPLOADED leaves that status only by being removed
\* or by a RegisterFile of its own path or of its partner's path, which makes it
\* PENDING or AWAITING_PARTNER; MarkOrphans and MarkUploaded leave it UPLOADED.
C5_UploadedLeftByRegisterOnly ==
    [][\A p \in DOMAIN files :
          (IsUploaded(p) /\ p \in DOMAIN files' /\ files'[p].status # StatusUploaded)
              => /\ RegisterStep(p) \/ RegisterStep(OtherOf(p))
                 /\ files'[p].status \in {StatusPending, StatusAwaitingPartner}]_vars

\* C5 happens: the last store write is a RegisterFile of a path whose record was
\* UPLOADED, and the record is not UPLOADED any more.
C5_Witness ==
    /\ last.op = "RegisterFile"
    /\ last.pre = StatusUploaded
    /\ HasRecord(last.path)
    /\ StatusOf(last.path) # StatusUploaded

\* The records of x and x.json are both PENDING and name each other.
Paired(x) ==
    /\ HasRecord(x) /\ HasRecord(AddJson(x))
    /\ StatusOf(x) = StatusPending /\ StatusOf(AddJson(x)) = StatusPending
    /\ files[x].partner_path = AddJson(x)
    /\ files[AddJson(x)].partner_path = x

\* C6: for a datum x and its sidecar x.json, the registration of either of them when
\* the other has a record (whatever that record's status, ORPHAN after a MarkOrphans
\* in between included) leaves both records PENDING, each naming the other as partner.
C6_PairingOrderIndependent ==
    [][\A x \in DataPaths : \A p \in {x, AddJson(x)} :
          (RegisterStep(p) /\ HasRecord(OtherOf(p))) => Paired(x)']_vars

\* C6 happens: the sidecar was registered first and became ORPHAN, then the datum
\* was registered, and the two are paired.
C6_Witness ==
    /\ last.op = "RegisterFile"
    /\ last.path = A
    /\ last.partner = StatusOrphan
    /\ Paired(A)

\* GetPendingFiles, with a limit that does not cut the result, returns path.
Returned(fs, path) ==
    \A rows \in GetPendingFiles(fs, Cardinality(DOMAIN fs)) :
        \E i \in 1..Len(rows) : rows[i].path = path

\* C7: the registration of a file whose partner has no record stores
\* AWAITING_PARTNER for a sidecar, AWAITING_PARTNER for a datum when expectSidecar,
\* and PENDING for a datum when not expectSidecar, which GetPendingFiles then returns.
C7_InitialStatus ==
    [][\A p \in AllPaths :
          (RegisterStep(p) /\ ~HasRecord(OtherOf(p)))
              => IF Ext(p) = JsonExt \/ expectSidecar
                 THEN files'[p].status = StatusAwaitingPartner /\ ~Returned(files', p)
                 ELSE files'[p].status = StatusPending /\ Returned(files', p)]_vars

\* C7 happens: without the sidecar strategy a datum with no partner record has been
\* registered, after another record, and is PENDING.
C7_Witness ==
    /\ last.op = "RegisterFile"
    /\ Ext(last.path) # JsonExt
    /\ last.partner = "NONE"
    /\ ~expectSidecar
    /\ HasRecord(last.path) /\ StatusOf(last.path) = StatusPending
    /\ Cardinality(DOMAIN files) > 1

\* The ingester is idle: empty job channel, empty in-flight set, no run in progress.
IngesterIdle ==
    /\ jobs = <<>>
    /\ pending = {}
    /\ prod.pc = "idle"
    /\ \A w \in Workers : wk[w].pc = "idle"

\* C8: when the ingester is idle, a datum and its sidecar that both have a record are
\* both UPLOADED or both not, also after a MarkUploaded call that returned an error.
C8_PairCommit ==
    IngesterIdle =>
        \A x \in DataPaths :
            (HasRecord(x) /\ HasRecord(AddJson(x)))
                => (IsUploaded(x) <=> IsUploaded(AddJson(x)))

\* C9: with expectSidecar, a datum that is ORPHAN (its sidecar never arrives) is
\* eventually UPLOADED when nothing fails and every goroutine is scheduled fairly.
C9_OrphanEventuallyUploaded ==
    \A p \in DataPaths :
        (expectSidecar /\ HasRecord(p) /\ StatusOf(p) = StatusOrphan) ~> IsUploaded(p)

\* The deadline a reaper tick at the present instant uses.
Deadline == Time(now) - OrphanTimeout(OrphanCheckInterval)

\* C10: a tick of the orphan checker sets status ORPHAN on exactly the rows that are
\* AWAITING_PARTNER with mod_time < now - timeout, and changes no other row and no
\* other field; no row is added or removed.
C10_MarkOrphansExact ==
    [][ReaperTick =>
        /\ DOMAIN files' = DOMAIN files
        /\ \A q \in DOMAIN files :
              files'[q] = IF files[q].status = StatusAwaitingPartner
                             /\ files[q].mod_time < Deadline
                          THEN [files[q] EXCEPT !.status = StatusOrphan]
                          ELSE files[q]]_vars

\* C10 happens: the last store write is a MarkOrphans at the present instant that
\* changed a row and left AWAITING_PARTNER a row whose mod_time is the deadline.
C10_Witness ==
    /\ last.op = "MarkOrphans"
    /\ last.at = now
    /\ last.rows # {}
    /\ \A q \in last.rows : StatusOf(q) = StatusOrphan
    /\ \E r \in DOMAIN files \ last.rows :
          StatusOf(r) = StatusAwaitingPartner /\ files[r].mod_time = Deadline

\* The last timer made for the path.
LastTimer == deb.state[Len(deb.state)]

\* A stream of events of one path with every gap shorter than the debounce duration
\* has so far stopped every timer but the last, has had one callback if the last
\* timer's function has run and none otherwise, and once more than the debounce
\* duration has passed since the last event the last timer has fired.
OneCallback ==
    (deb.events > 0 /\ deb.short) =>
        /\ \A k \in 1..(Len(deb.state) - 1) : deb.state[k].st = "stopped"
        /\ deb.calls = IF LastTimer.st = "done" THEN 1 ELSE 0
        /\ Time(now) > deb.lastEvent + Debounce => LastTimer.st \in {"fired", "done"}

C12_WrittenFileGetsCallback ==
    \A p \in {B, SC} : (p \in DOMAIN disk) ~> HasRecord(p)

\* The UPLOADED rows of a table, and its oldest ones.
UploadedIn(t) == {q \in DOMAIN t : t[q].status = StatusUploaded}
OldestUploaded(t) == {q \in UploadedIn(t) : \A r \in UploadedIn(t) : t[q].mod_time <= t[r].mod_time}

\* The tables left by removing from t, oldest first, UPLOADED rows until the total
\* is at or below the low watermark or none is left.
RECURSIVE Shrunk(_)
Shrunk(t) ==
    IF GetTotalSize(t) <= lowWatermarkBytes \/ UploadedIn(t) = {}
    THEN {t}
    ELSE UNION {Shrunk(RemoveFile(t, q)) : q \in OldestUploaded(t)}

\* What the claim lets one Prune cycle leave of table t.
HysteresisResults(t) == IF GetTotalSize(t) <= highWatermarkBytes THEN {t} ELSE Shrunk(t)

\* A Prune cycle ends in this step.
CycleEnds == pr.pc # "idle" /\ pr'.pc = "idle"

C14_EvictionOrder ==
    \A i \in DOMAIN pr.evicted : \A j \in DOMAIN pr.evicted :
        i < j => pr.evicted[i].mod_time <= pr.evicted[j].mod_time

\* The bytes held by the UPLOADED rows of a table.
UploadedBytes(t) == SumSizes(t, UploadedIn(t))

Reclaimable(t) ==
    /\ GetTotalSize(t) > highWatermarkBytes
    /\ UploadedBytes(t) >= GetTotalSize(t) - lowWatermarkBytes

C16_RemoveFileClearsLinks ==
    last.op = "RemoveFile" =>
        /\ last.path \notin DOMAIN files
        /\ \A q \in DOMAIN files : files[q].partner_path # last.path

\* C17: in every state of the store, a row has uploaded_at set exactly when its
\* status is UPLOADED.
C17_UploadedAtIffUploaded ==
    \A q \in DOMAIN files :
        (files[q].uploaded_at # NullTime) <=> (files[q].status = StatusUploaded)

\* The paths queued in the job channel, the paths a worker has received and not yet
\* released, and the path the producer has reserved and not yet sent or released.
InChannel == {jobs[i].path : i \in DOMAIN jobs}
AtWorker == {wk[w].f.path : w \in {v \in Workers : wk[v].pc # "idle"}}
Reserved == IF prod.pc \in {"send", "undo"} THEN {Head(prod.batch).path} ELSE {}

\* No path is in the channel twice, at two workers, or both queued and at a worker.
NoDuplicateJob ==
    /\ \A i \in DOMAIN jobs : \A j \in DOMAIN jobs : jobs[i].path = jobs[j].path => i = j
    /\ \A v \in Workers : \A w \in Workers :
          (wk[v].pc # "idle" /\ wk[w].pc # "idle" /\ wk[v].f.path = wk[w].f.path) => v = w
    /\ InChannel \cap AtWorker = {}

\* C18 as stated: at every moment the in-flight set is exactly the set of paths
\* queued or at a worker, none of them twice, and it is empty when the channel is
\* empty and the workers are idle.
C18_InFlightSet ==
    /\ pending = InChannel \cup AtWorker
    /\ NoDuplicateJob
    /\ (jobs = <<>> /\ \A w \in Workers : wk[w].pc = "idle") => pending = {}

\* C18: at every moment the in-flight set is exactly the set of paths queued, at a
\* worker, or reserved by the producer for the send it is about to try, none of them
\* twice, and it is empty when the channel is empty and workers and producer are idle.
C18_InFlightSetWithReserved ==
    /\ pending = InChannel \cup AtWorker \cup Reserved
    /\ NoDuplicateJob
    /\ Reserved \cap (InChannel \cup AtWorker) = {}
    /\ (jobs = <<>> /\ prod.pc = "idle" /\ \A w \in Workers : wk[w].pc = "idle")
          => pending = {}

\* C18 happens: a job is queued while a worker runs another, and the producer comes
\* upon a path that is in flight.
C18_Witness ==
    /\ jobs # <<>>
    /\ AtWorker # {}
    /\ Cardinality(pending) = 2
    /\ prod.pc = "check"
    /\ Head(prod.batch).path \in pending

\* C19: no run of the pipeline is about to send the ingest request, the PUT or the
\* confirmation for a record that is UPLOADED (a record uploaded once and not
\* registered again is not uploaded a second time).
C19_NoDuplicateWork ==
    \A w \in Workers :
        wk[w].pc \in {"ingest", "put", "confirm"} => ~IsUploaded(wk[w].f.path)

\* What holds of the shutdown whenever it has got somewhere: the channel is closed
\* only after Stop was called, a worker has returned only from a closed and empty
\* channel with its job released, and Stop has returned only after the poll loop and
\* every worker returned, with no job left queued or in flight.
OrderlyShutdown ==
    /\ shut.closed => shut.stop
    /\ \A w \in shut.exited : shut.closed /\ jobs = <<>> /\ wk[w].pc = "idle"
    /\ shut.returned =>
          /\ shut.closed /\ shut.exited = Workers
          /\ jobs = <<>> /\ pending = {} /\ prod.pc = "idle"

\* C20 as stated: once Stop is called no job is enqueued, the channel is closed,
\* the queued jobs are processed, Stop returns after the poll loop and the workers
\* returned, and it does return.
C20_Stop ==
    /\ [][shut.stop => Len(jobs') <= Len(jobs)]_vars
    /\ []OrderlyShutdown
    /\ shut.stop ~> shut.closed
    /\ shut.stop ~> shut.returned

\* C20: once the poll loop has taken the stop case no job is enqueued (until then
\* a batch begun or a tick taken after the call to Stop may still enqueue), the
\* channel is closed, the queued jobs are processed, Stop returns after the poll
\* loop and the workers returned, and it does return.
C20_StopAfterLoopExit ==
    /\ [][shut.closed => Len(jobs') <= Len(jobs)]_vars
    /\ []OrderlyShutdown
    /\ shut.stop ~> shut.closed
    /\ shut.stop ~> shut.returned

\* C20 happens: the poll loop has closed the channel while a job is queued in it and
\* a worker is running another.
C20_Witness ==
    /\ shut.closed
    /\ jobs # <<>>
    /\ AtWorker # {}
    /\ shut.exited = {}

\* The file at path is a copy dropped during the run, not the one of the start.
DroppedAgain(path) ==
    /\ path \in DOMAIN disk
    /\ disk[path].mtime >= RaceInstants[1]

\* C21: a file dropped again while the pruner evicts the old copy of its path is not
\* deleted, and once the pruner and the watcher's callback are done the store has a
\* row for it that is PENDING or AWAITING_PARTNER.
C21_BenignRace ==
    /\ [][\A path \in env.paths : DroppedAgain(path) => path \in DOMAIN disk']_vars
    /\ [](userOps > 0 /\ pr.pc = "idle" /\ timers = {} =>
             \A path \in env.paths :
                 DroppedAgain(path) =>
                     /\ HasRecord(path)
                     /\ StatusOf(path) \in {StatusPending, StatusAwaitingPartner})

Max(x, y) == IF x >= y THEN x ELSE y

\* The timeout of the claim: the interval less a slack of a minute or a fifth of
\* the interval, whichever is larger, and not below a minute.
SlackTimeout(orphanInterval) ==
    Max(orphanInterval - Max(1 * Minute, orphanInterval \div 5), 1 * Minute)

\* The orphan checker has called MarkOrphans in this step.
ReaperRan == last'.op = "MarkOrphans" /\ last' # last

\* C23 as stated: each call of the orphan checker marks the rows that MarkOrphans
\* marks with a timeout of the interval less the larger of a minute and a fifth of
\* the interval, at least a minute; with an interval of 10 minutes, 8 minutes.
C23_ReaperTimeout ==
    [][ReaperRan =>
          /\ files' = MarkOrphans(files, Time(now), SlackTimeout(env.cfg.orphan))
          /\ env.cfg.orphan = 10 * Minute => SlackTimeout(env.cfg.orphan) = 8 * Minute]_vars

\* C23: each call of the orphan checker marks the rows that MarkOrphans marks with
\* a timeout of the interval less one minute, at least a minute; with an interval
\* of 10 minutes, 9 minutes.
C23_ReaperTimeoutMinuteSlack ==
    [][ReaperRan =>
          /\ files' = MarkOrphans(files, Time(now),
                                  Max(env.cfg.orphan - 1 * Minute, 1 * Minute))
          /\ env.cfg.orphan = 10 * Minute =>
                files' = MarkOrphans(files, Time(now), 9 * Minute)]_vars

\* C23 happens: with an interval of 10 minutes the orphan checker has just marked a
\* row that was older than 9 minutes.
C23_Witness ==
    /\ env.cfg.orphan = 10 * Minute
    /\ last.op = "MarkOrphans"
    /\ last.at = now
    /\ last.rows # {}
    /\ \A q \in last.rows : files[q].status = StatusOrphan

\* C24: a run for a sidecar whose row is ORPHAN is not ended by the sidecar
\* short-circuit but goes on to the checksum, and an ORPHAN sidecar is eventually
\* UPLOADED when nothing fails and every goroutine is scheduled fairly.
C24_OrphanSidecarUploaded ==
    /\ [][\A w \in Workers :
             (/\ wk[w].pc = "process" /\ wk'[w].pc # "process"
              /\ Ext(wk[w].f.path) = JsonExt
              /\ HasRecord(wk[w].f.path)
              /\ StatusOf(wk[w].f.path) = StatusOrphan)
                 => wk'[w].pc = "hash"]_vars
    /\ (HasRecord(AJ) /\ StatusOf(AJ) = StatusOrphan) ~> IsUploaded(AJ)

\* What the claim says ExtractMetadata returns for the directory names L.
ExpectedContext(L) == L
ExpectedMeta(L) == {<<<<"dir_", i>>, L[i + 1]>> : i \in 0..(Len(L) - 1)}

\* C25 as stated: for the path joined from the root, directory names L, none of
\* them empty or ".", and a file name, ExtractMetadata returns context = L and
\* metadata dir_i = L[i] for every index i from 0; both empty for a file in the root.
C25_ExtractMetadata ==
    extract.done =>
        /\ extract.context = ExpectedContext(extract.names)
        /\ extract.meta = ExpectedMeta(extract.names)

\* C25: the same when none of the directory names is "..", which Join resolves
\* against the element before it.
C25_ExtractMetadataNoDotDot ==
    (extract.done /\ \A i \in DOMAIN extract.names : extract.names[i] # DotDot) =>
        /\ extract.context = ExpectedContext(extract.names)
        /\ extract.meta = ExpectedMeta(extract.names)

\* C25 happens: ExtractMetadata has returned two directories for a path under a
\* root given with a trailing separator.
C25_Witness ==
    /\ extract.done
    /\ extract.root = <<"/", "d", "/">>
    /\ Len(extract.names) = MaxDirs
    /\ Len(extract.context) = MaxDirs
    /\ Cardinality(extract.meta) = MaxDirs

\* C26: after a RegisterFile that found no row for the partner, the partner_path of
\* the registered row is NULL for a sidecar, NULL for a datum when no sidecar is
\* expected, and the datum's path with ".json" when one is expected.
C26_PartnerPathWithoutPartner ==
    (last.op = "RegisterFile" /\ last.partner = "NONE") =>
        files[last.path].partner_path =
            IF Ext(last.path) # JsonExt /\ expectSidecar
            THEN AddJson(last.path)
            ELSE NullPath

\* The requests of a run, in order, and the answers to them.
Ops(trace) == [i \in DOMAIN trace |-> trace[i][1]]
Answer(trace, i) == trace[i][2]
Is2xx(st) == st >= 200 /\ st < 300

\* A run that has ended sent one of: nothing; an ingest-request that failed; an
\* accepted ingest-request and, the file not opening, a FAILED confirm; an accepted
\* ingest-request, a PUT that failed and a FAILED confirm; an accepted
\* ingest-request, a PUT answered 2xx and a SUCCESS confirm.
EndedAsClaimed(trace) ==
    \/ trace = <<>>
    \/ Ops(trace) = <<"ingest">> /\ Answer(trace, 1) # StatusCreated
    \/ /\ Ops(trace) \in {<<"ingest", "confirmFAILED">>, <<"ingest", "put", "confirmFAILED">>,
                         <<"ingest", "put", "confirmSUCCESS">>}
       /\ Answer(trace, 1) = StatusCreated
       /\ Ops(trace)[2] = "put" => (Is2xx(Answer(trace, 2)) <=> Ops(trace)[3] = "confirmSUCCESS")

\* A run is at a request or has just had a SUCCESS confirm rejected.
InRequests(w) == wk[w].pc \in {"ingest", "put", "confirmFailed", "confirm"}

AtHead == Head(prod.batch)

\* The row of path is fetched by GetPendingFiles.
Fetchable(path) == HasRecord(path) /\ StatusOf(path) \in {StatusPending, StatusOrphan}

\* The producer's send does not wait: with the channel full it turns to the release
\* of the reservation, which removes the path from the in-flight set, leaves the
\* table and the channel as they are and goes on with the batch.
SkipsWhenFull ==
    [][/\ (prod.pc = "send" /\ prod' # prod) =>
             IF Len(jobs) < IngestBatchSize
             THEN jobs' = Append(jobs, AtHead)
             ELSE prod'.pc = "undo" /\ jobs' = jobs /\ pending' = pending
       /\ (prod.pc = "undo" /\ prod' # prod) =>
             /\ pending' = pending \ {AtHead.path}
             /\ AtHead.path \notin InChannel'
             /\ prod'.pc \in {"check", "idle"}
             /\ files' = files /\ jobs' = jobs]_vars

\* C28: the producer never waits on a full channel: the record is skipped and its
\* reservation released, its row is not touched, and while its row stays PENDING or
\* ORPHAN it is enqueued later, when nothing fails and scheduling is fair.
C28_FullChannel ==
    /\ SkipsWhenFull
    /\ [](prod.pc = "send" => ENABLED ProducerSend)
    /\ \A path \in {A, AJ, B} :
          (prod.pc = "undo" /\ AtHead.path = path)
              ~> (path \in InChannel \/ ~Fetchable(path))

\* C29: once Daemon.Stop has closed the store, no goroutine executes a store
\* method any more: no Prune (GetTotalSize, GetPruneCandidates, RemoveFile), no
\* MarkOrphans of the orphan checker, no RegisterFile of the initial scan.
C29_QuietAfterStop == shut.db => shut.late = {}

\* C30: when the last event received for the path is a RENAME or REMOVE, the
\* path has no timer in the map and, whatever the interleaving of the timer's
\* firing with the event loop, onStable(path) is not invoked.
C30_CancelOnRemove ==
    [][/\ deb'.removed => deb'.entry = 0
       /\ deb.removed => deb'.calls = deb.calls]_vars

\* The timers of the path that are armed: made, not stopped, their function not
\* yet started.
Armed == {k \in 1..Len(deb.state) : deb.state[k].st = "armed"}

\* C31: once Watcher.Close has returned no timer is armed and onStable is not
\* invoked any more.
C31_CloseCancelsTimers ==
    [][/\ deb'.closed => Armed' = {}
       /\ deb.closed => deb'.calls = deb.calls]_vars

\* C32: no debounce timer is ever armed for a directory, whatever events of the
\* directory are received, and so onStable is never invoked for it.
C32_NoTimerForDirectory == SubDir \notin timers

\* The pruner is back at the head of the eviction loop after a batch.
NextIteration == pr.pc \in {"unlink", "remove"} /\ pr'.pc = "fetch"

\* C33: an iteration of the eviction loop is followed by another one only if it
\* removed at least one record (each counted deletion takes one row out of the
\* table), and every cycle ends, also when unlinks and store calls fail.
C33_PruneTerminates ==
    /\ [][/\ NextIteration => pr'.deletedCount >= 1
          /\ pr'.deletedCount > pr.deletedCount =>
                Cardinality(DOMAIN files') < Cardinality(DOMAIN files)]_vars
    /\ (pr.pc # "idle") ~> (pr.pc = "idle")

\* C33 happens: a cycle has ended after a batch that removed no record (the file
\* of an UPLOADED row was unlinked, its RemoveFile failed), with the total still
\* above the low watermark.
C33_Witness ==
    /\ env.faults
    /\ pr.pc = "idle"
    /\ GetTotalSize(files) > lowWatermarkBytes
    /\ \E q \in DOMAIN files : files[q].status = StatusUploaded /\ q \notin DOMAIN disk

\* MarkUploaded(path) is applied to a row that an earlier MarkUploaded left UPLOADED.
MarkedAgain(path) ==
    /\ path \in DOMAIN files
    /\ files[path].status = StatusUploaded
    /\ StoreMarkUploaded(path)

\* C34: MarkUploaded is idempotent: applied to a row it has already marked, it
\* leaves the status and the uploaded_at of every record as they are.
C34_MarkUploadedIdempotent ==
    [][\A path \in AllPaths : MarkedAgain(path) => files' = files]_vars

\* C34 as the code has it: the second MarkUploaded changes nothing but the
\* uploaded_at of that row, which becomes the time of the second call.
C34_MarkUploadedIdempotentButTime ==
    [][\A path \in AllPaths :
          MarkedAgain(path) => files' = [files EXCEPT ![path].uploaded_at = Time(now)]]_vars

\* C34 happens: the last store write was a MarkUploaded of an UPLOADED row, at a
\* later time than the one that row carried.
C34_Witness ==
    /\ last.op = "MarkUploaded"
    /\ last.pre = StatusUploaded
    /\ last.rows = {last.path}
    /\ files[last.path].uploaded_at = Time(last.at)

\* C35: a datum whose row is PENDING or ORPHAN and whose file exists is eventually
\* UPLOADED when nothing fails and every goroutine is scheduled fairly, whatever
\* older PENDING or ORPHAN rows the table holds.
C35_NoStarvation ==
    \A p \in DataPaths :
        (HasRecord(p) /\ StatusOf(p) \in {StatusPending, StatusOrphan} /\ p \in DOMAIN disk)
            ~> IsUploaded(p)

\* C36: a sidecar that is PENDING while its datum has no record (the datum's row
\* was removed when its file had vanished at the checksum) eventually leaves
\* PENDING: its row is uploaded or removed.
C36_PairedSidecarLeavesPending ==
    (HasRecord(AJ) /\ StatusOf(AJ) = StatusPending /\ ~HasRecord(A))
        ~> ~(HasRecord(AJ) /\ StatusOf(AJ) = StatusPending)

\* The run of worker w marks the row of its record's partner UPLOADED.
MarksPartner(w) ==
    /\ wk[w].pc = "markPartner"
    /\ wk'[w].pc = "release"
    /\ files' # files

\* C37: a worker marks the sidecar of its datum UPLOADED only if it had loaded the
\* sidecar's content as the device context of its run.
C37_SidecarMarkedOnlyIfSent ==
    [][\A w \in Workers : MarksPartner(w) => wk[w].ctx # NoContent]_vars

\* C38: at most one timer of the path is armed, an armed timer is the one in the
\* timer map, and the function of a timer never deletes the map entry of a newer
\* timer.
C38_OneTimerInMap ==
    /\ [](Cardinality(Armed) <= 1)
    /\ [](\A k \in Armed : deb.entry = k)
    /\ [][\A k \in 1..Len(deb.state) :
             (deb.state[k].st = "fired" /\ deb'.state[k].st = "done")
                 => (deb.entry \in {0, k} \/ deb'.entry = deb.entry)]_vars

\* C39: partner links are symmetric: when the row of p names q as its partner and
\* q has a row with a partner path, that partner path is p.
C39_SymmetricLinks ==
    \A p \in DOMAIN files : \A q \in DOMAIN files :
        (files[p].partner_path = q /\ files[q].partner_path # NullPath)
            => files[q].partner_path = p

\* C40: nothing is sent on the job channel once it is closed: the poll loop is in
\* a batch only while the channel is open, every step that puts a job on the
\* channel is taken with the channel open, and a worker returns only when the
\* channel is closed and empty.
C40_NoSendAfterClose ==
    /\ [](prod.pc # "idle" => ~shut.closed)
    /\ [][/\ Len(jobs') > Len(jobs) => ~shut.closed /\ ~shut'.closed
          /\ \A w \in Workers :
                (w \notin shut.exited /\ w \in shut'.exited)
                    => (shut.closed /\ jobs = <<>>)]_vars

\* C40 happens: stop is signalled while the poll loop is inside a batch, about to
\* send with a job already on the channel, and the channel is still open.
C40_Witness ==
    /\ shut.stop
    /\ ~shut.closed
    /\ prod.pc = "send"
    /\ Len(jobs) = IngestBatchSize

====
